---- MODULE Spec2Model ----
(***************************************************************************)
(* A model of the ray tracer: scene / BVH intersection queries, the camera *)
(* and its render loop, the recursive colour integrator and the PPM pixel  *)
(* formatting.                                                             *)
(*                                                                         *)
(* Numbers.  An f64 is modelled as a fixed-point number: an integer count  *)
(* of 1/Scale units (Scale = 1000), every product, quotient and square     *)
(* root truncated to that grid.  +inf, -inf and NaN are the sentinels      *)
(* PInf, NInf and NaN; the comparison operators Lt/Gt/Le/Ge are false as   *)
(* soon as one side is NaN, as IEEE comparisons are.  A zero is +0.0.      *)
(***************************************************************************)
EXTENDS Integers, Sequences, FiniteSets, TLC

VARIABLES
    scene,      \* Scene: [objects, sum_aabb, bvh]
    query,      \* the last Scene::hit call made on the scene: ray, interval, result
    panic,      \* "" while the process runs, else the message it panicked with
    rgbIn,      \* a linear colour handed to ARgb::write
    rgbOut,     \* the line ARgb::write produced for it, once written
    pc,         \* where the program is: in main, inside render, finished
    args,       \* the arguments Camera::build was called with
    cam,        \* the Camera it returned
    out,        \* the output sink: the lines written to it, in order
    err,        \* "" or the error build / render returned
    px,         \* render's loop: the pixel (wn, hn), the sample, px_color
    col         \* the running call of color: ray, depth and the levels above it

vars == <<scene, query, panic, rgbIn, rgbOut, pc, args, cam, out, err, px, col>>
sceneVars == <<scene, query>>
renderVars == <<pc, args, cam, out, err, px, col>>
rgbVars == <<rgbIn, rgbOut>>

(***************************************************************************)
(* Fixed-point arithmetic                                                  *)
(***************************************************************************)
Scale == 10 * 10 * 10

PInf == 1000000000
NInf == -PInf
NaN == 2 * PInf

None == [some |-> FALSE]
Some(x) == [some |-> TRUE, val |-> x]

Abs(a) == IF a < 0 THEN -a ELSE a
Sgn(a) == IF a < 0 THEN -1 ELSE IF a > 0 THEN 1 ELSE 0
MinI(a, b) == IF a <= b THEN a ELSE b
MaxI(a, b) == IF a >= b THEN a ELSE b

\* integer quotient truncated toward zero
TDiv(a, b) == Sgn(a) * Sgn(b) * (Abs(a) \div Abs(b))

IsFinite(a) == a # NaN /\ a # PInf /\ a # NInf

\* IEEE comparisons: false when either side is NaN
Lt(a, b) == a # NaN /\ b # NaN /\ a < b
Gt(a, b) == a # NaN /\ b # NaN /\ a > b
Le(a, b) == a # NaN /\ b # NaN /\ a <= b
Ge(a, b) == a # NaN /\ b # NaN /\ a >= b

\* a * b on finite values
FMul(a, b) ==
    Sgn(a) * Sgn(b) *
        ((Abs(a) \div Scale) * Abs(b) + ((Abs(a) % Scale) * Abs(b)) \div Scale)

\* a / b on finite values, b # 0
FDiv(a, b) == TDiv(a * Scale, b)

\* a * b on f64 values with infinities and NaN: inf * 0 is NaN
EMul(a, b) ==
    IF a = NaN \/ b = NaN THEN NaN
    ELSE IF IsFinite(a) /\ IsFinite(b) THEN FMul(a, b)
    ELSE IF a = 0 \/ b = 0 THEN NaN
    ELSE IF Sgn(a) * Sgn(b) > 0 THEN PInf ELSE NInf

\* a - b on f64 values with infinities and NaN: inf - inf is NaN
ESub(a, b) ==
    IF a = NaN \/ b = NaN THEN NaN
    ELSE IF IsFinite(a) /\ IsFinite(b) THEN a - b
    ELSE IF IsFinite(b) THEN a
    ELSE IF IsFinite(a) THEN -b
    ELSE IF a = b THEN NaN ELSE a

\* f64::recip: 1/x, +inf at (+)0
Recip(x) == IF x = 0 THEN PInf ELSE TDiv(Scale * Scale, x)

RECURSIVE ISqrtIn(_, _, _)
ISqrtIn(n, lo, hi) ==
    IF lo >= hi THEN lo
    ELSE LET mid == (lo + hi + 1) \div 2
         IN  IF mid * mid <= n THEN ISqrtIn(n, mid, hi) ELSE ISqrtIn(n, lo, mid - 1)

\* the largest k with k*k <= n
ISqrt(n) == ISqrtIn(n, 0, MinI(n, 46340))

\* f64::sqrt on a finite value >= 0
FSqrt(x) == ISqrt(x * Scale)

(***************************************************************************)
(* core/point3.rs                                                          *)
(***************************************************************************)
Pt(x, y, z) == <<x * Scale, y * Scale, z * Scale>>

VAdd(a, b) == <<a[1] + b[1], a[2] + b[2], a[3] + b[3]>>
VSub(a, b) == <<a[1] - b[1], a[2] - b[2], a[3] - b[3]>>
VMul(a, l) == <<FMul(a[1], l), FMul(a[2], l), FMul(a[3], l)>>
VDiv(a, l) == <<FDiv(a[1], l), FDiv(a[2], l), FDiv(a[3], l)>>
VNeg(a) == <<-a[1], -a[2], -a[3]>>

squared_size(a) == FMul(a[1], a[1]) + FMul(a[2], a[2]) + FMul(a[3], a[3])
size(a) == FSqrt(squared_size(a))
unit(a) == VDiv(a, size(a))

scalar_prod(a, b) ==
    IF a = b THEN squared_size(a)
    ELSE FMul(a[1], b[1]) + FMul(a[2], b[2]) + FMul(a[3], b[3])

cross(a, b) ==
    << FMul(a[2], b[3]) - FMul(a[3], b[2]),
       FMul(a[3], b[1]) - FMul(a[1], b[3]),
       FMul(a[1], b[2]) - FMul(a[2], b[1]) >>

(***************************************************************************)
(* core/ray.rs                                                             *)
(***************************************************************************)
RayNew(orig, dir, tm) == [orig |-> orig, dir |-> dir, tm |-> IF tm.some THEN tm.val ELSE 0]

RayAt(r, t) == VAdd(r.orig, VMul(r.dir, t))

(***************************************************************************)
(* utils/interval.rs, utils/math.rs                                        *)
(***************************************************************************)
IntervalNew(min, max) == [min |-> min, max |-> max]

EMPTY == IntervalNew(PInf, NInf)

\* an enclosing that keeps the upper end of its first argument
IntervalEnclosingLeftMax(lhs, rhs) ==
    [min |-> IF Le(lhs.min, rhs.min) THEN lhs.min ELSE rhs.min,
     max |-> lhs.max]

IntervalEnclosing(lhs, rhs) ==
    [min |-> IF Le(lhs.min, rhs.min) THEN lhs.min ELSE rhs.min,
     max |-> IF Ge(lhs.max, rhs.max) THEN lhs.max ELSE rhs.max]

IntervalSize(i) == ESub(i.max, i.min)

IntervalSurrounds(i, val) == Lt(i.min, val) /\ Gt(i.max, val)

AXES == <<1, 2, 3>>

(***************************************************************************)
(* scene/aabb.rs                                                           *)
(***************************************************************************)
AabbNew(x, y, z) == [x |-> x, y |-> y, z |-> z]

AABB_EMPTY == AabbNew(EMPTY, EMPTY, EMPTY)

AabbFromPoints(a, b) ==
    LET iv(i) == IF a[i] <= b[i] THEN IntervalNew(a[i], b[i]) ELSE IntervalNew(b[i], a[i])
    IN  AabbNew(iv(1), iv(2), iv(3))

AabbMerge(lhs, rhs) ==
    AabbNew(IntervalEnclosing(lhs.x, rhs.x),
            IntervalEnclosing(lhs.y, rhs.y),
            IntervalEnclosing(lhs.z, rhs.z))

AabbExpand(self, other) == AabbMerge(self, other)

AxisInterval(box, n) == IF n = 1 THEN box.x ELSE IF n = 2 THEN box.y ELSE box.z

\* the interval ray_t is copied: each axis is tested against the caller's interval
AabbFindRayHitBoundaries(box, r, axis, ray_t) ==
    LET ax_interval == AxisInterval(box, axis)
        origin_ax_component == r.orig[axis]
        adinv == Recip(r.dir[axis])
        t0 == EMul(ESub(ax_interval.min, origin_ax_component), adinv)
        t1 == EMul(ESub(ax_interval.max, origin_ax_component), adinv)
        min_t == IF Lt(t0, t1) THEN t0 ELSE t1
        max_t == IF Lt(t0, t1) THEN t1 ELSE t0
        new_min == IF Gt(min_t, ray_t.min) THEN min_t ELSE ray_t.min
        new_max == IF Lt(max_t, ray_t.max) THEN max_t ELSE ray_t.max
    IN  Gt(new_max, new_min)

AabbHit(box, r, ray_t) ==
    \A i \in 1..Len(AXES) : AabbFindRayHitBoundaries(box, r, AXES[i], ray_t)

\* Ordering of the interval minima on an axis: -1 Less, 0 Equal, 1 Greater
AabbCompareOverAxis(self, other, axis) ==
    LET a == AxisInterval(self, axis).min
        b == AxisInterval(other, axis).min
    IN  IF a < b THEN -1 ELSE IF a = b THEN 0 ELSE 1

(***************************************************************************)
(* scene/hittable.rs: HitRec                                               *)
(***************************************************************************)
HitRecNew(p, n, t, mat) == [p |-> p, n |-> n, t |-> t, face |-> "Inside", mat |-> mat]

\* a set_face_normal that records the face and keeps the outward normal
set_face_normal_unflipped(hr, r, outward_normal) ==
    IF scalar_prod(r.dir, outward_normal) < 0
    THEN [hr EXCEPT !.face = "Outside", !.n = outward_normal]
    ELSE [hr EXCEPT !.face = "Inside", !.n = outward_normal]

\* tx_coord is read by ImageTexture::color alone and is left out of the record
set_face_normal(hr, r, outward_normal) ==
    IF scalar_prod(r.dir, outward_normal) < 0
    THEN [hr EXCEPT !.face = "Outside", !.n = outward_normal]
    ELSE [hr EXCEPT !.face = "Inside", !.n = VNeg(outward_normal)]

(***************************************************************************)
(* scene/sphere.rs                                                         *)
(***************************************************************************)
rvec(r) == <<r, r, r>>

SphereNewStatic(r, center, mat) ==
    [kind |-> "sphere",
     r |-> MaxI(r, 0),
     center |-> [moving |-> FALSE, c1 |-> center, c2 |-> center],
     mat |-> mat,
     bbox |-> AabbFromPoints(VSub(center, rvec(r)), VAdd(center, rvec(r)))]

SphereNew(r, center, moving_center, mat) ==
    IF moving_center.some
    THEN LET second_center == moving_center.val
             box1 == AabbFromPoints(VSub(center, rvec(r)), VAdd(center, rvec(r)))
             box2 == AabbFromPoints(VSub(second_center, rvec(r)),
                                    VAdd(second_center, rvec(r)))
         IN  [kind |-> "sphere",
              r |-> MaxI(r, 0),
              center |-> [moving |-> TRUE, c1 |-> center, c2 |-> second_center],
              mat |-> mat,
              bbox |-> AabbExpand(box1, box2)]
    ELSE SphereNewStatic(r, center, mat)

center_at(s, tm) ==
    IF ~s.center.moving THEN s.center.c1
    ELSE LET b == s.center.c1
             l == s.center.c2
         IN  << b[1] + FMul(tm, l[1] - b[1]),
                b[2] + FMul(tm, l[2] - b[2]),
                b[3] + FMul(tm, l[3] - b[3]) >>

\* the discriminant of Sphere::hit and the two roots it tries
SphereQuad(s, ray) ==
    LET cur_center == center_at(s, ray.tm)
        oc == VSub(cur_center, ray.orig)
        a == scalar_prod(ray.dir, ray.dir)
        h == scalar_prod(ray.dir, oc)
        c == scalar_prod(oc, oc) - FMul(s.r, s.r)
    IN  [cur_center |-> cur_center, a |-> a, h |-> h, d |-> FMul(h, h) - FMul(a, c)]

\* Sphere::hit that gives up when the smaller root is outside the interval
SphereHitQuadSmallerOnly(s, ray, ray_t_possible, q) ==
    IF q.d < 0 THEN None
    ELSE LET t == FDiv(q.h - FSqrt(q.d), q.a)
         IN  IF IntervalSurrounds(ray_t_possible, t)
             THEN LET p == RayAt(ray, t)
                      outward_normal == VDiv(VSub(p, q.cur_center), s.r)
                  IN  Some(set_face_normal(
                               HitRecNew(p, outward_normal, t, s.mat),
                               ray, outward_normal))
             ELSE None

\* Sphere::hit once the quadratic q is known
SphereHitQuad(s, ray, ray_t_possible, q) ==
    IF q.d < 0 THEN None
    ELSE LET sqrd == FSqrt(q.d)
             t1 == FDiv(q.h - sqrd, q.a)
             t == IF ~IntervalSurrounds(ray_t_possible, t1)
                  THEN FDiv(q.h + sqrd, q.a) ELSE t1
         IN  IF IntervalSurrounds(ray_t_possible, t)
             THEN LET p == RayAt(ray, t)
                      outward_normal == VDiv(VSub(p, q.cur_center), s.r)
                  IN  Some(set_face_normal(
                               HitRecNew(p, outward_normal, t, s.mat),
                               ray, outward_normal))
             ELSE None

SphereHit(s, ray, ray_t_possible) ==
    SphereHitQuad(s, ray, ray_t_possible, SphereQuad(s, ray))

(***************************************************************************)
(* scene/bvh.rs                                                            *)
(***************************************************************************)
\* Aabb::longest_axis is not among the sources: the axes of largest span
LongestAxes(box) ==
    {n \in 1..3 : \A m \in 1..3 :
        Ge(IntervalSize(AxisInterval(box, n)), IntervalSize(AxisInterval(box, m)))}

\* Either::Left or Either::Right
compare_hittables(lhs, rhs, axis) ==
    IF AabbCompareOverAxis(lhs.bbox, rhs.bbox, axis) <= 0 THEN "Left" ELSE "Right"

\* the comparator handed to sort_unstable_by
cmp(axis, lhs, rhs) == AabbCompareOverAxis(lhs.bbox, rhs.bbox, axis)

\* a sort that leaves the slice as it is
SortUnstableByKeepsOrder(objects, axis) == {objects}

\* every order sort_unstable_by may leave the slice in
SortUnstableBy(objects, axis) ==
    LET n == Len(objects)
        perms == {f \in [1..n -> 1..n] : \A i, j \in 1..n : i # j => f[i] # f[j]}
    IN  {[i \in 1..n |-> objects[f[i]]] : f \in
            {g \in perms : \A i \in 1..(n - 1) :
                cmp(axis, objects[g[i]], objects[g[i + 1]]) <= 0}}

RECURSIVE BoxOf(_, _)
BoxOf(objects, i) ==
    IF i = 0 THEN AABB_EMPTY ELSE AabbExpand(BoxOf(objects, i - 1), objects[i].bbox)

\* a node that keeps the box of its left child
BvhNodeLeftBox(left, right, bbox) ==
    [kind |-> "bvh", left |-> left, right |-> right, bbox |-> left.bbox]

BvhNode(left, right, bbox) == [kind |-> "bvh", left |-> left, right |-> right, bbox |-> bbox]

\* Bvh::new: the trees it may build; none for an empty slice (unreachable!() panics)
RECURSIVE BvhNew(_)
BvhNew(objects) ==
    LET bbox == BoxOf(objects, Len(objects))
        span == Len(objects)
    IN  IF span = 0 THEN {}
        ELSE IF span = 1 THEN {BvhNode(objects[1], objects[1], bbox)}
        ELSE IF span = 2
        THEN {IF compare_hittables(objects[1], objects[2], axis) = "Left"
              THEN BvhNode(objects[1], objects[2], bbox)
              ELSE BvhNode(objects[2], objects[1], bbox) : axis \in LongestAxes(bbox)}
        ELSE LET mid == span \div 2
             IN  UNION {UNION {{BvhNode(l, r, bbox) :
                                   l \in BvhNew(SubSeq(sorted, 1, mid)),
                                   r \in BvhNew(SubSeq(sorted, mid + 1, span))} :
                               sorted \in SortUnstableBy(objects, axis)} :
                        axis \in LongestAxes(bbox)}

BvhFromVec(objects) == BvhNew(objects)

RECURSIVE HittableHit(_, _, _)
\* hit_right.or(hit_left)
OptionOr(opt, optb) == IF opt.some THEN opt ELSE optb

\* Bvh::hit once the left child answered hit_left
BvhHitRight(self, ray, ray_t_possible, hit_left) ==
    OptionOr(IF hit_left.some
             THEN HittableHit(self.right, ray,
                              IntervalNew(ray_t_possible.min, hit_left.val.t))
             ELSE HittableHit(self.right, ray, ray_t_possible),
             hit_left)

BvhHit(self, ray, ray_t_possible) ==
    IF AabbHit(self.bbox, ray, ray_t_possible)
    THEN BvhHitRight(self, ray, ray_t_possible,
                     HittableHit(self.left, ray, ray_t_possible))
    ELSE None

HittableHit(h, ray, ray_t_possible) ==
    IF h.kind = "sphere" THEN SphereHit(h, ray, ray_t_possible)
    ELSE BvhHit(h, ray, ray_t_possible)

(***************************************************************************)
(* scene/hittable.rs: Scene                                                *)
(***************************************************************************)
SceneDefault == [objects |-> <<>>, sum_aabb |-> AABB_EMPTY, bvh |-> None]

SceneAddTo(sc, object) ==
    [sc EXCEPT !.objects = Append(@, object),
               !.sum_aabb = AabbExpand(@, object.bbox)]

\* a build_bvh that builds anew on every call
SceneBuildBvhOfAnew(sc) ==
    {[sc EXCEPT !.bvh = Some(b)] : b \in BvhFromVec(sc.objects)}

\* Scene::build_bvh: the scenes it may leave; none when Bvh::new panics
SceneBuildBvhOf(sc) ==
    IF sc.bvh.some THEN {sc}
    ELSE {[sc EXCEPT !.bvh = Some(b)] : b \in BvhFromVec(sc.objects)}

\* Scene::hit on a scene whose bvh exists
SceneHitOf(sc, ray, ray_t_possible) == BvhHit(sc.bvh.val, ray, ray_t_possible)

(***************************************************************************)
(* core/rgb.rs, utils/math.rs: a colour and the line it is written as      *)
(***************************************************************************)
ARgbNew(r, g, b) == <<r, g, b>>
ARgbDefault == <<0, 0, 0>>

ARgbMulF(c, l) == <<FMul(c[1], l), FMul(c[2], l), FMul(c[3], l)>>
ARgbMul(c, rhs) == <<FMul(c[1], rhs[1]), FMul(c[2], rhs[2]), FMul(c[3], rhs[3])>>
ARgbDivF(c, l) == <<FDiv(c[1], l), FDiv(c[2], l), FDiv(c[3], l)>>
ARgbAdd(c, rhs) == <<c[1] + rhs[1], c[2] + rhs[2], c[3] + rhs[3]>>

\* gamma 2: NaN > 0.0 is false, sqrt(+inf) is +inf
linear_to_gamma(linear) ==
    IF Gt(linear, 0) THEN (IF linear = PInf THEN PInf ELSE FSqrt(linear)) ELSE 0

\* the factor of the Display impl, 254.999
GammaScale == 254999

U8Max == 255

\* as safe_f64_to_u8_clamp, the value cast without rounding
safe_f64_to_u8_truncating(value) ==
    IF value = NaN THEN None
    ELSE LET clamped == IF Lt(value, 0) THEN 0
                        ELSE IF Gt(value, U8Max * Scale) THEN U8Max * Scale ELSE value
         IN  Some(clamped \div Scale)

\* Some(u8) of value.clamp(0, 255).round(), None for NaN
safe_f64_to_u8_clamp(value) ==
    IF value = NaN THEN None
    ELSE LET clamped == IF Lt(value, 0) THEN 0
                        ELSE IF Gt(value, U8Max * Scale) THEN U8Max * Scale ELSE value
         IN  Some((clamped + Scale \div 2) \div Scale)

\* one channel of the Display impl; None when expect("f64 is nan!") panics
ARgbChannel(x) == safe_f64_to_u8_clamp(EMul(linear_to_gamma(x), GammaScale))

\* the line "R G B" of a pixel, or None when formatting panics
ARgbDisplay(c) ==
    LET u8r == [i \in 1..3 |-> ARgbChannel(c[i])]
    IN  IF \A i \in 1..3 : u8r[i].some
        THEN Some([line |-> "px", r |-> u8r[1].val, g |-> u8r[2].val, b |-> u8r[3].val])
        ELSE None

(***************************************************************************)
(* scene/texture.rs (SolidColor, CheckerTexture)                           *)
(***************************************************************************)
SolidColor(albedo) == [kind |-> "solid", albedo |-> albedo]

CheckerTexture(scale, even_color, odd_color) ==
    [kind |-> "checker", inv_scale |-> Recip(scale),
     even |-> SolidColor(even_color), odd |-> SolidColor(odd_color)]

TextureColor(tex, p) ==
    IF tex.kind = "solid" THEN tex.albedo
    ELSE LET sum == (FMul(p[1], tex.inv_scale) \div Scale)
                    + (FMul(p[2], tex.inv_scale) \div Scale)
                    + (FMul(p[3], tex.inv_scale) \div Scale)
         IN  IF sum % 2 = 0 THEN tex.even.albedo ELSE tex.odd.albedo

\* core/rgb.rs
SOLID_CYAN_COLOR == ARgbNew(0, Scale, Scale)

\* an RgbImage: its dimensions and the three u8 channels of each pixel
RgbImage(width, height) ==
    [width |-> width, height |-> height,
     px |-> [c \in (0..(width - 1)) \X (0..(height - 1)) |->
               <<(c[1] * 100) % 256, (c[2] * 100 + 50) % 256, 255>>]]

\* f64::clamp: NaN stays NaN
FClamp(x, lo, hi) == IF x = NaN THEN NaN ELSE IF x < lo THEN lo ELSE IF x > hi THEN hi ELSE x

\* `as u32` of an f64 that is at most u32::MAX: truncation, NaN and negatives give 0
F64AsU32(x) == IF x = NaN \/ x <= 0 THEN 0 ELSE x \div Scale

\* a pixel index taken as it is
IndexMinUnbounded(x, n) == x

\* x.min(n - 1) in u32; in a release build 0 - 1 wraps to u32::MAX, which bounds nothing
IndexMin(x, n) == IF n = 0 THEN x ELSE MinI(x, n - 1)

\* ImageTexture::color in a build with (debug) or without (release) overflow checks:
\* the fallback colour, the colour of pixel (i, j), or a panic
ImageTextureColor(img, u, v, build) ==
    IF img.height = 0 THEN [kind |-> "fallback", val |-> SOLID_CYAN_COLOR]
    ELSE IF img.width = 0 /\ build = "debug"
    THEN [kind |-> "panic", msg |-> "attempt to subtract with overflow"]
    ELSE LET i == IndexMin(F64AsU32(EMul(FClamp(u, 0, Scale), img.width * Scale)), img.width)
             j == IndexMin(F64AsU32(EMul(FClamp(IF v = NaN THEN NaN ELSE Abs(v), 0, Scale), img.height * Scale)),
                           img.height)
         IN  IF i < img.width /\ j < img.height
             THEN [kind |-> "color", i |-> i, j |-> j,
                   val |-> ARgbNew(FDiv(img.px[<<i, j>>][1] * Scale, 255 * Scale),
                                   FDiv(img.px[<<i, j>>][2] * Scale, 255 * Scale),
                                   FDiv(img.px[<<i, j>>][3] * Scale, 255 * Scale))]
             ELSE [kind |-> "panic", msg |-> "Image index out of bounds", i |-> i, j |-> j]

(***************************************************************************)
(* Random draws.  Every draw of a generator is a choice from a small set   *)
(* of values of its range.                                                 *)
(***************************************************************************)
\* Uniform(0, 1 + 1e-160) and random::<f64>(): values of [0, 1)
UnitDraws == {0, Scale \div 2}

\* random_with_interval(-1.0..1.0) points that random_unit_on_sphere accepts
CubeDraws == { <<0, Scale \div 2, 0>>, <<-(Scale \div 2), 0, Scale \div 2>> }

\* Uniform(-0.5, 0.5): values of [-0.5, 0.5)
OffsetDraws == {-(Scale \div 2), Scale \div 4}

\* Point::random_on_unit_disk is not among the sources: points (r cos, r sin, 0)
\* of the unit disk
DiskDraws == { <<Scale \div 2, 0, 0>>, <<0, -(Scale \div 2), 0>> }

\* the accepted point divided by its squared length
random_unit_on_sphere(p) == VDiv(p, squared_size(p))

\* all components below 1e-8 in absolute value: on the grid, all zero
near_zero(v) == \A i \in 1..3 : Abs(v[i]) = 0

PointReflect(self, n) == VSub(self, VMul(VMul(n, 2 * Scale), scalar_prod(self, n)))

(***************************************************************************)
(* scene/material.rs                                                       *)
(***************************************************************************)
Lambertian(albedo, reflectance) ==
    [kind |-> "lambertian", texture |-> SolidColor(albedo), reflectance |-> reflectance]

LambertianWithTexture(texture, reflectance) ==
    [kind |-> "lambertian", texture |-> texture, reflectance |-> reflectance]

Metal(albedo, fuzz) == [kind |-> "metal", albedo |-> albedo, fuzz |-> fuzz]

Dielectric(refraction_index) == [kind |-> "dielectric", refraction_index |-> refraction_index]

RayDefault == [orig |-> <<0, 0, 0>>, dir |-> <<0, 0, 0>>, tm |-> 0]

\* what scatter returns and leaves in its two out-parameters
ScatterResult(ret, attenuation, scattered) ==
    [ret |-> ret, attenuation |-> attenuation, scattered |-> scattered]

\* a Lambertian::scatter whose attenuation is the texture colour as it is
LambertianScatterUnweighted(m, r_in, hr, draw, p) ==
    IF draw < m.reflectance
    THEN LET sum == VAdd(hr.n, random_unit_on_sphere(p))
             scatter_dir == IF near_zero(sum) THEN hr.n ELSE sum
         IN  ScatterResult(TRUE, TextureColor(m.texture, hr.p),
                           RayNew(hr.p, scatter_dir, Some(r_in.tm)))
    ELSE ScatterResult(FALSE, ARgbDefault, RayDefault)

\* Lambertian::scatter for one draw of `between` and one accepted cube point
LambertianScatterWith(m, r_in, hr, draw, p) ==
    IF draw < m.reflectance
    THEN LET sum == VAdd(hr.n, random_unit_on_sphere(p))
             scatter_dir == IF near_zero(sum) THEN hr.n ELSE sum
         IN  ScatterResult(TRUE,
                           ARgbDivF(TextureColor(m.texture, hr.p), m.reflectance),
                           RayNew(hr.p, scatter_dir, Some(r_in.tm)))
    ELSE ScatterResult(FALSE, ARgbDefault, RayDefault)

LambertianScatter(m, r_in, hr) ==
    { LambertianScatterWith(m, r_in, hr, draw, p) : draw \in UnitDraws, p \in CubeDraws }

\* a Metal::scatter that tests the outgoing direction without a fuzz radius too
MetalScatterAlwaysTests(m, r_in, hr) ==
    { LET reflected == IF m.fuzz.some
                       THEN VAdd(unit(PointReflect(r_in.dir, hr.n)),
                                 VMul(random_unit_on_sphere(p), m.fuzz.val))
                       ELSE PointReflect(r_in.dir, hr.n)
          scattered == RayNew(hr.p, reflected, Some(r_in.tm))
      IN  ScatterResult(scalar_prod(scattered.dir, hr.n) > 0, m.albedo, scattered)
      : p \in CubeDraws }

MetalScatter(m, r_in, hr) ==
    { LET reflected == IF m.fuzz.some
                       THEN VAdd(unit(PointReflect(r_in.dir, hr.n)),
                                 VMul(random_unit_on_sphere(p), m.fuzz.val))
                       ELSE PointReflect(r_in.dir, hr.n)
          scattered == RayNew(hr.p, reflected, Some(r_in.tm))
      IN  ScatterResult(~m.fuzz.some \/ scalar_prod(scattered.dir, hr.n) > 0,
                        m.albedo, scattered)
      : p \in CubeDraws }

reflect(v, n) == VSub(v, VMul(VMul(n, 2 * Scale), scalar_prod(v, n)))

refract(uv, n, etai_over_etat) ==
    LET cos_theta == MinI(scalar_prod(VNeg(uv), n), Scale)
        r_out_perpendicular == VMul(VAdd(uv, VMul(n, cos_theta)), etai_over_etat)
        r_out_parallel ==
            VMul(n, -FSqrt(Abs(Scale - scalar_prod(r_out_perpendicular,
                                                   r_out_perpendicular))))
    IN  VAdd(r_out_perpendicular, r_out_parallel)

Pow5(x) == FMul(FMul(FMul(FMul(x, x), x), x), x)

\* Schlick's approximation
reflectance(cos, refraction_index) ==
    LET q == FDiv(Scale - refraction_index, Scale + refraction_index)
        r0 == FMul(q, q)
    IN  r0 + FMul(Scale - r0, Pow5(Scale - cos))

\* a choice of index that inverts for hits from inside
DielectricRefractionIndexSwapped(m, hr) ==
    IF hr.face = "Inside" THEN FDiv(Scale, m.refraction_index) ELSE m.refraction_index

\* the relative refraction index Dielectric::scatter works with
DielectricRefractionIndex(m, hr) ==
    IF hr.face = "Inside" THEN m.refraction_index ELSE FDiv(Scale, m.refraction_index)

\* a Dielectric::scatter whose outgoing ray is built without a time
DielectricScatterTimeless(m, r_in, hr) ==
    { ScatterResult(TRUE, ARgbNew(Scale, Scale, Scale),
                    RayNew(hr.p, reflect(unit(r_in.dir), hr.n), None)) }

DielectricScatter(m, r_in, hr) ==
    { LET refraction_index == DielectricRefractionIndex(m, hr)
          unit_dir == unit(r_in.dir)
          cos_theta == MinI(scalar_prod(VNeg(unit_dir), hr.n), Scale)
          sin_theta == FSqrt(Scale - FMul(cos_theta, cos_theta))
          direction == IF \/ FMul(refraction_index, sin_theta) > Scale
                          \/ reflectance(cos_theta, refraction_index) > draw
                       THEN reflect(unit_dir, hr.n)
                       ELSE refract(unit_dir, hr.n, refraction_index)
      IN  ScatterResult(TRUE, ARgbNew(Scale, Scale, Scale),
                        RayNew(hr.p, direction, Some(r_in.tm)))
      : draw \in UnitDraws }

\* Material::scatter, dispatched on the material: every result the draws allow
Scatter(m, r_in, hr) ==
    IF m.kind = "lambertian" THEN LambertianScatter(m, r_in, hr)
    ELSE IF m.kind = "metal" THEN MetalScatter(m, r_in, hr)
    ELSE IF m.kind = "dielectric" THEN DielectricScatter(m, r_in, hr)
    ELSE {ScatterResult(FALSE, ARgbDefault, RayDefault)}

(***************************************************************************)
(* camera/camera.rs: Camera::build                                         *)
(***************************************************************************)
\* f64::consts::PI, in 1/Scale radians, to the nearest grid value
PI == 3142

HALF_PI == FDiv(PI, 2 * Scale)

\* f64::tan at the half angles in use, to the nearest grid value:
\* tan(0) = 0, tan(atan 0.5) = 0.5, tan(pi/4) = 1, tan(atan 2) = 2
Tan(x) ==
    IF x = 0 THEN 0
    ELSE IF x = 463 THEN Scale \div 2
    ELSE IF x = 785 THEN Scale
    ELSE 2 * Scale

\* rand's Uniform::new: the error it returns for the range, "" for none
UniformNew(low, high) ==
    IF ~(IsFinite(low) /\ IsFinite(high)) THEN "NonFinite"
    ELSE IF ~(low < high) THEN "EmptyRange"
    ELSE ""

\* Ok(AntiAliaser) or Err(uniform::Error)
AntiAliaserBuild(samples_per_pixel) ==
    LET e == UniformNew(-(Scale \div 2), Scale \div 2)
    IN  IF e # "" THEN [ok |-> FALSE, err |-> e]
        ELSE [ok |-> TRUE,
              val |-> [samples_per_pixel |-> samples_per_pixel,
                       samples_scale |-> FDiv(Scale, samples_per_pixel * Scale)]]

\* None outside the u32 range (every finite value of the model is below u32::MAX)
f64_to_u32(value) ==
    IF value = NaN \/ value < 0 \/ value = PInf THEN None ELSE Some(value \div Scale)

DefaultAaSamples == 100
DefaultMaxBounceDepth == 10
DefaultLookfrom == <<0, 0, 0>>
\* a look-at default behind the camera
DefaultLookatBehind == Pt(0, 0, 1)
DefaultLookat == Pt(0, 0, -1)
DefaultVup == Pt(0, 1, 0)
DefaultFocusDist == Scale
DefaultDefocusAngle == 0

UnwrapOr(opt, default) == IF opt.some THEN opt.val ELSE default

\* a sample count for which None disables antialiasing as Some(0) does
AaSamplesPerPxOmittedDisables(aa_samples_per_px) ==
    IF aa_samples_per_px = Some(0) \/ aa_samples_per_px = None THEN None
    ELSE aa_samples_per_px

\* the sample count the camera is built with: None for Some(0)
AaSamplesPerPx(aa_samples_per_px) ==
    IF aa_samples_per_px = Some(0) THEN None
    ELSE Some(UnwrapOr(aa_samples_per_px, DefaultAaSamples))

\* None when expect("img height in pixels should fit u32") panics
ImgHeight(img_width, ratio) ==
    IF FDiv(img_width * Scale, ratio) < Scale THEN Some(1)
    ELSE f64_to_u32(FDiv(img_width * Scale, ratio))

DefocuserNew(b, focus_r, defocus_angle) ==
    [disk_u_r |-> VMul(b.u, focus_r), disk_v_r |-> VMul(b.v, focus_r),
     angle |-> defocus_angle]

\* the Basis of Camera::build: u is the cross product as it comes
Basis(lookfrom, lookat, vup) ==
    [u |-> cross(vup, unit(VSub(lookfrom, lookat))),
     v |-> cross(unit(VSub(lookfrom, lookat)), cross(vup, unit(VSub(lookfrom, lookat)))),
     w |-> unit(VSub(lookfrom, lookat))]

\* Camera::build: [ok, val] or [ok, err]; img_height is known to fit
CameraBuild(a) ==
    LET lookfrom == UnwrapOr(a.lookfrom, DefaultLookfrom)
        lookat == UnwrapOr(a.lookat, DefaultLookat)
        vup == UnwrapOr(a.vup, DefaultVup)
        vfov == UnwrapOr(a.vfov, HALF_PI)
        focus_dist == UnwrapOr(a.focus_dist, DefaultFocusDist)
        defocus_angle == UnwrapOr(a.defocus_angle, DefaultDefocusAngle)
        aa_samples_per_px == AaSamplesPerPx(a.aa_samples_per_px)
        max_bounce_depth == UnwrapOr(a.max_bounce_depth, DefaultMaxBounceDepth)
        img_height == ImgHeight(a.img_width, a.ratio).val
        h == Tan(FDiv(vfov, 2 * Scale))
        vp_height == FMul(FMul(2 * Scale, h), focus_dist)
        vp_width == FMul(vp_height, FDiv(a.img_width * Scale, img_height * Scale))
        basis == Basis(lookfrom, lookat, vup)
        w == basis.w
        u == basis.u
        v == basis.v
        vp_v == VMul(VNeg(v), vp_height)
        vp_u == VMul(u, vp_width)
        px_du == VDiv(vp_u, a.img_width * Scale)
        px_dv == VDiv(vp_v, img_height * Scale)
        vp_upper_left == VSub(VSub(lookfrom, VMul(w, focus_dist)),
                              VMul(VAdd(vp_u, vp_v), Scale \div 2))
        px00_loc == VAdd(vp_upper_left, VMul(VAdd(px_dv, px_du), Scale \div 2))
        defocus_radius == FMul(focus_dist, Tan(FDiv(defocus_angle, 2 * Scale)))
        defocus == DefocuserNew(basis, defocus_radius, defocus_angle)
        anti_aliaser == IF aa_samples_per_px.some
                        THEN AntiAliaserBuild(aa_samples_per_px.val)
                        ELSE [ok |-> TRUE]
    IN  IF ~anti_aliaser.ok THEN [ok |-> FALSE, err |-> "Antialiaser"]
        ELSE [ok |-> TRUE,
              val |-> [lookfrom |-> lookfrom,
                       px_du |-> px_du,
                       px_dv |-> px_dv,
                       img_width |-> a.img_width,
                       img_height |-> img_height,
                       vp_upper_left |-> vp_upper_left,
                       px00_loc |-> px00_loc,
                       anti_aliaser |-> IF aa_samples_per_px.some
                                        THEN Some(anti_aliaser.val) ELSE None,
                       defocus |-> defocus,
                       max_bounce_depth |-> max_bounce_depth]]

defocus_disk_sample(self, p) ==
    VAdd(VAdd(self.lookfrom, VMul(self.defocus.disk_u_r, p[1])),
         VMul(self.defocus.disk_v_r, p[2]))

\* Camera::ray_for: every ray the draws allow for pixel (wn, hn)
ray_for(self, wn, hn) ==
    { LET w_offset == IF self.anti_aliaser.some THEN wo ELSE 0
          h_offset == IF self.anti_aliaser.some THEN ho ELSE 0
          px_sample == VAdd(VAdd(self.px00_loc, VMul(self.px_du, wn * Scale + w_offset)),
                            VMul(self.px_dv, hn * Scale + h_offset))
          ray_orig == IF self.defocus.angle <= 0 THEN self.lookfrom
                      ELSE defocus_disk_sample(self, p)
      IN  RayNew(ray_orig, VSub(px_sample, ray_orig), Some(tm))
      : wo \in OffsetDraws, ho \in OffsetDraws, p \in DiskDraws, tm \in UnitDraws }

\* the ray of the branch of render that runs without an anti-aliaser
RenderRayNoAa(self, wn, hn) ==
    LET px_center == VAdd(VAdd(self.vp_upper_left, VMul(self.px_du, wn * Scale)),
                          VMul(self.px_dv, hn * Scale))
    IN  RayNew(self.lookfrom, VSub(px_center, self.lookfrom), None)

(***************************************************************************)
(* camera/camera.rs: color                                                 *)
(***************************************************************************)
Background(ray) ==
    LET unit_dir == unit(ray.dir)
        a == FMul(Scale \div 2, unit_dir[2] + Scale)
    IN  ARgbAdd(ARgbMulF(ARgbNew(Scale, Scale, Scale), Scale - a),
                ARgbMulF(ARgbNew(Scale \div 2, 7 * (Scale \div 10), Scale), a))

\* color without the depth test: the ray is always looked up in the scene
ColorLevelUnbudgeted(ray, sc, depth) ==
    IF ~sc.bvh.some THEN {[kind |-> "panic"]}
    ELSE IF SceneHitOf(sc, ray, IntervalNew(1, PInf)).some
    THEN {[kind |-> "ret", val |-> ARgbDefault, hits |-> 1, scatters |-> 1]}
    ELSE {[kind |-> "ret", val |-> Background(ray), hits |-> 1, scatters |-> 0]}

\* a color for which an absorbed ray shows the background
ColorOnHitAbsorbedIsBackground(ray, rec) ==
    IF rec.some
    THEN { IF o.ret
           THEN [kind |-> "rec", attenuation |-> o.attenuation,
                 scattered |-> o.scattered, hits |-> 1, scatters |-> 1]
           ELSE [kind |-> "ret", val |-> Background(ray), hits |-> 1, scatters |-> 1]
           : o \in Scatter(rec.val.mat, ray, rec.val) }
    ELSE {[kind |-> "ret", val |-> Background(ray), hits |-> 1, scatters |-> 0]}

\* color past the depth test, once Scene::hit answered rec
ColorOnHit(ray, rec) ==
    IF rec.some
    THEN { IF o.ret
           THEN [kind |-> "rec", attenuation |-> o.attenuation,
                 scattered |-> o.scattered, hits |-> 1, scatters |-> 1]
           ELSE [kind |-> "ret", val |-> ARgbDefault, hits |-> 1, scatters |-> 1]
           : o \in Scatter(rec.val.mat, ray, rec.val) }
    ELSE {[kind |-> "ret", val |-> Background(ray), hits |-> 1, scatters |-> 0]}

\* One level of color(ray, scene, depth): every outcome the draws allow.
\* "ret": the level returns val.  "rec": it recurses on `scattered` with depth - 1
\* and multiplies what comes back by `attenuation`.  "panic": Scene::hit panics.
\* hits / scatters count the calls of Scene::hit and Material::scatter it makes.
ColorLevel(ray, sc, depth) ==
    IF depth = 0
    THEN {[kind |-> "ret", val |-> ARgbNew(0, 0, 0), hits |-> 0, scatters |-> 0]}
    ELSE IF ~sc.bvh.some THEN {[kind |-> "panic"]}
    ELSE ColorOnHit(ray, SceneHitOf(sc, ray, IntervalNew(1, PInf)))

\* the value color returns once the innermost level returned val: the product with
\* the attenuations of the levels above it, innermost first
RECURSIVE Attenuated(_, _)
Attenuated(atts, val) ==
    IF atts = <<>> THEN val
    ELSE Attenuated(SubSeq(atts, 1, Len(atts) - 1), ARgbMul(atts[Len(atts)], val))

(***************************************************************************)
(* Scene operations under test: add, build_bvh and hit, in any order.      *)
(***************************************************************************)
MaxObjects == 3

\* materials are not consulted by intersection
NoMat == [kind |-> "none"]

\* the spheres a scene is assembled from (radius > 0)
SpherePool ==
    { SphereNewStatic(1 * Scale, Pt(0, 0, 0), NoMat),
      SphereNewStatic(1 * Scale, Pt(3, 0, 0), NoMat),
      SphereNewStatic(2 * Scale, Pt(0, 0, 4), NoMat),
      SphereNew(1 * Scale, Pt(0, 3, 0), Some(Pt(0, 5, 0)), NoMat) }

\* rays: origin, direction, time in [0,1]
QueryRays ==
    { RayNew(o, d, Some(tm)) :
        o \in {Pt(0, 0, -5), Pt(1, 0, -5), Pt(-5, 0, 0)},
        d \in {Pt(0, 0, 1), Pt(1, 0, 0)},
        tm \in {0, Scale} }
    \cup { RayNew(Pt(0, 0, -5), Pt(0, 1, 1), Some(tm)) : tm \in {0, Scale \div 2, Scale} }

QueryIntervals ==
    { IntervalNew(1, PInf), IntervalNew(4 * Scale, 9 * Scale) }

NoQuery == [kind |-> "none"]

PxIdle ==
    [hn |-> 0, wn |-> 0, sample |-> 0, px_color |-> ARgbDefault,
     traced |-> 0, ray |-> RayDefault]

ColIdle ==
    [ray |-> RayDefault, depth |-> 0, atts |-> <<>>, depth0 |-> 0,
     hits |-> 0, scatters |-> 0, leaf |-> None, ret |-> None]

RenderIdle ==
    /\ pc = "idle"
    /\ args = None
    /\ cam = None
    /\ out = <<>>
    /\ err = ""
    /\ px = PxIdle
    /\ col = ColIdle

InitScene ==
    /\ scene = SceneDefault
    /\ query = NoQuery
    /\ panic = ""
    /\ rgbIn = ARgbDefault
    /\ rgbOut = None
    /\ RenderIdle

\* Scene::add
SceneAdd ==
    /\ panic = ""
    /\ Len(scene.objects) < MaxObjects
    /\ \E object \in SpherePool : scene' = SceneAddTo(scene, object)
    /\ UNCHANGED <<query, panic, rgbVars, renderVars>>

\* Scene::build_bvh
SceneBuildBvh ==
    /\ panic = ""
    /\ IF SceneBuildBvhOf(scene) = {}
       THEN panic' = "entered unreachable code" /\ UNCHANGED <<scene, query, rgbVars, renderVars>>
       ELSE /\ scene' \in SceneBuildBvhOf(scene)
            /\ UNCHANGED <<query, panic, rgbVars, renderVars>>

\* Scene::hit that reports a miss when there is no BVH
SceneHitMissWithoutBvh ==
    /\ panic = ""
    /\ \E ray \in QueryRays, ray_t \in QueryIntervals :
         /\ query' = [kind |-> "hit", ray |-> ray, ray_t |-> ray_t,
                      res |-> IF scene.bvh.some THEN SceneHitOf(scene, ray, ray_t) ELSE None]
         /\ UNCHANGED <<scene, panic, rgbVars, renderVars>>

\* Scene::hit
SceneHit ==
    /\ panic = ""
    /\ \E ray \in QueryRays, ray_t \in QueryIntervals :
         IF scene.bvh.some
         THEN /\ query' = [kind |-> "hit", ray |-> ray, ray_t |-> ray_t,
                           res |-> SceneHitOf(scene, ray, ray_t)]
              /\ UNCHANGED <<scene, panic, rgbVars, renderVars>>
         ELSE /\ panic' = "expected bvh to exist when hit called"
              /\ UNCHANGED <<scene, query, rgbVars, renderVars>>

NextScene == SceneAdd \/ SceneBuildBvh \/ SceneHit

SpecScene == InitScene /\ [][NextScene]_vars

(***************************************************************************)
(* ARgb::write under test: any linear colour, written once.                *)
(***************************************************************************)
\* linear channel values: negative, zero, inside (0,1], above 1, not finite
ChannelValues ==
    { NInf, -2 * Scale, -1, 0, 1, 4, 250, 500, 640, 999, Scale, Scale + 1,
      2 * Scale, 4 * Scale, PInf, NaN }

InitRgb ==
    /\ scene = SceneDefault
    /\ query = NoQuery
    /\ panic = ""
    /\ rgbIn \in {ARgbNew(r, g, b) : r \in ChannelValues, g \in {0, 250, NaN}, b \in {-1, Scale}}
    /\ rgbOut = None
    /\ RenderIdle

\* ARgb::write: format the colour and hand the line to the stream
ARgbWrite ==
    /\ panic = ""
    /\ ~rgbOut.some
    /\ IF ARgbDisplay(rgbIn).some
       THEN rgbOut' = ARgbDisplay(rgbIn) /\ UNCHANGED panic
       ELSE panic' = "f64 is nan!" /\ UNCHANGED rgbOut
    /\ UNCHANGED <<sceneVars, rgbIn, renderVars>>

NextRgb == ARgbWrite

SpecRgb == InitRgb /\ [][NextRgb]_vars

(***************************************************************************)
(* The program: main builds a camera and a scene and renders the scene.    *)
(***************************************************************************)
NoArgs ==
    [lookfrom |-> None, lookat |-> None, vup |-> None, img_width |-> 1,
     ratio |-> Scale, aa_samples_per_px |-> Some(0), vfov |-> None,
     focus_dist |-> None, defocus_angle |-> None, max_bounce_depth |-> None]

\* the calls of Camera::build the runs make
RunArgs ==
    { [NoArgs EXCEPT !.img_width = wr[1], !.ratio = wr[2], !.max_bounce_depth = d] :
        wr \in {<<1, Scale>>, <<2, Scale>>, <<2, 2 * Scale>>},
        d \in {None, Some(0), Some(1), Some(2)} }
    \cup { [NoArgs EXCEPT !.aa_samples_per_px = aa, !.max_bounce_depth = d] :
             aa \in {Some(1), Some(2)}, d \in {None, Some(0), Some(1)} }
    \cup { [NoArgs EXCEPT !.aa_samples_per_px = None, !.max_bounce_depth = Some(0)] }
    \cup { [NoArgs EXCEPT !.img_width = 2, !.ratio = 2 * Scale,
                          !.aa_samples_per_px = Some(2),
                          !.max_bounce_depth = Some(1)] }
    \cup { [NoArgs EXCEPT !.aa_samples_per_px = aa, !.defocus_angle = Some(926),
                          !.lookfrom = Some(Pt(0, 0, 1)), !.focus_dist = Some(2 * Scale)] :
             aa \in {Some(0), Some(1)} }

Yellow == ARgbNew(Scale, Scale, 0)
Gold == ARgbNew(8 * (Scale \div 10), 6 * (Scale \div 10), 2 * (Scale \div 10))

\* the scenes main assembles: the primitives added, and whether build_bvh is called
ScenePresets ==
    { [objects |-> <<>>, build |-> TRUE],
      [objects |-> <<>>, build |-> FALSE],
      [objects |-> <<SphereNewStatic(2 * Scale, Pt(-1, 0, -3), Lambertian(Yellow, Scale))>>,
       build |-> TRUE],
      [objects |-> <<SphereNewStatic(2 * Scale, Pt(-1, 0, -3), Lambertian(Yellow, Scale))>>,
       build |-> FALSE],
      [objects |-> <<SphereNewStatic(2 * Scale, Pt(-1, 0, -3),
                                     Lambertian(Gold, Scale \div 2))>>,
       build |-> TRUE],
      [objects |-> <<SphereNewStatic(1 * Scale, Pt(-1, 1, -2), Metal(Gold, None)),
                     SphereNewStatic(1 * Scale, Pt(0, 0, -3), Dielectric(3 * (Scale \div 2)))>>,
       build |-> TRUE],
      [objects |-> <<SphereNewStatic(1 * Scale, Pt(0, 0, -3), Metal(Gold, Some(Scale \div 2))),
                     SphereNew(1 * Scale, Pt(-2, 1, -3), Some(Pt(-2, 2, -3)),
                               LambertianWithTexture(
                                   CheckerTexture(Scale \div 2, Yellow, Gold),
                                   Scale \div 2))>>,
       build |-> TRUE] }

RECURSIVE SceneAddAll(_, _)
SceneAddAll(sc, objects) ==
    IF objects = <<>> THEN sc
    ELSE SceneAddAll(SceneAddTo(sc, Head(objects)), Tail(objects))

Init ==
    /\ scene = SceneDefault
    /\ query = NoQuery
    /\ panic = ""
    /\ rgbIn = ARgbDefault
    /\ rgbOut = None
    /\ pc = "main"
    /\ args = None
    /\ cam = None
    /\ out = <<>>
    /\ err = ""
    /\ px = PxIdle
    /\ col = ColIdle

\* main: Camera::build(...), and the return on Err(InitError::Antialiaser)
MainCameraBuild ==
    /\ pc = "main"
    /\ \E a \in RunArgs :
         /\ args' = Some(a)
         /\ IF ~ImgHeight(a.img_width, a.ratio).some
            THEN /\ panic' = "img height in pixels should fit u32"
                 /\ pc' = "panicked"
                 /\ UNCHANGED <<cam, err>>
            ELSE IF CameraBuild(a).ok
            THEN /\ cam' = Some(CameraBuild(a).val)
                 /\ pc' = "scene"
                 /\ UNCHANGED <<panic, err>>
            ELSE /\ err' = CameraBuild(a).err
                 /\ pc' = "exit"
                 /\ UNCHANGED <<panic, cam>>
    /\ UNCHANGED <<sceneVars, rgbVars, out, px, col>>

\* main: Scene::default(), the adds, and build_bvh when the preset calls it
MainScene ==
    /\ pc = "scene"
    /\ \E preset \in ScenePresets :
         LET added == SceneAddAll(SceneDefault, preset.objects)
         IN  IF ~preset.build
             THEN scene' = added /\ pc' = "render" /\ UNCHANGED panic
             ELSE IF SceneBuildBvhOf(added) = {}
             THEN /\ scene' = added
                  /\ panic' = "entered unreachable code"
                  /\ pc' = "panicked"
             ELSE /\ scene' \in SceneBuildBvhOf(added)
                  /\ pc' = "render"
                  /\ UNCHANGED panic
    /\ UNCHANGED <<query, rgbVars, args, cam, out, err, px, col>>

\* a header whose second line is "H W"
HeaderLinesHeightFirst(c) ==
    << [line |-> "P3"],
       [line |-> "dims", w |-> c.img_height, h |-> c.img_width],
       [line |-> "maxval", v |-> 255] >>

HeaderLines(c) ==
    << [line |-> "P3"],
       [line |-> "dims", w |-> c.img_width, h |-> c.img_height],
       [line |-> "maxval", v |-> 255] >>

\* the position of the loops before pixel (wn, hn) of an img_width x img_height image
LoopAt(c, wn, hn) ==
    IF hn < c.img_height /\ wn < c.img_width THEN "pixel" ELSE "done"

\* render: the write of the header, which the sink accepts or fails
RenderHeader ==
    /\ pc = "render"
    /\ \/ /\ out' = out \o HeaderLines(cam.val)
          /\ pc' = LoopAt(cam.val, 0, 0)
          /\ px' = PxIdle
          /\ UNCHANGED err
       \/ /\ err' = "WriteHeader"
          /\ pc' = "error"
          /\ UNCHANGED <<out, px>>
    /\ UNCHANGED <<sceneVars, panic, rgbVars, args, cam, col>>

\* render: the next ray of pixel (wn, hn) and the call of color on it
RenderTrace ==
    /\ pc = "pixel"
    /\ \E r \in IF cam.val.anti_aliaser.some
                THEN ray_for(cam.val, px.wn, px.hn)
                ELSE {RenderRayNoAa(cam.val, px.wn, px.hn)} :
         /\ px' = [px EXCEPT !.traced = @ + 1, !.ray = r]
         /\ col' = [ray |-> r, depth |-> cam.val.max_bounce_depth, atts |-> <<>>,
                    depth0 |-> cam.val.max_bounce_depth,
                    hits |-> 0, scatters |-> 0, leaf |-> None, ret |-> None]
    /\ pc' = "color"
    /\ UNCHANGED <<sceneVars, panic, rgbVars, args, cam, out, err>>

\* px_color that stays the sum of the samples
PxAfterUnscaled(c, p, val) ==
    IF c.anti_aliaser.some
    THEN [p EXCEPT !.sample = @ + 1, !.px_color = ARgbAdd(p.px_color, val)]
    ELSE [p EXCEPT !.sample = @ + 1, !.px_color = val]

\* px_color once color returned val for the current ray, and whether the pixel is
\* complete: the sum over the samples times samples_scale, or the value itself
PxAfter(c, p, val) ==
    IF c.anti_aliaser.some
    THEN LET sum == ARgbAdd(p.px_color, val)
         IN  IF p.sample + 1 < c.anti_aliaser.val.samples_per_pixel
             THEN [p EXCEPT !.sample = @ + 1, !.px_color = sum]
             ELSE [p EXCEPT !.sample = @ + 1,
                            !.px_color = ARgbMulF(sum, c.anti_aliaser.val.samples_scale)]
    ELSE [p EXCEPT !.sample = @ + 1, !.px_color = val]

PxComplete(c, p) ==
    IF c.anti_aliaser.some THEN p.sample >= c.anti_aliaser.val.samples_per_pixel
    ELSE TRUE

\* color: one level of the recursion
ColorStep ==
    /\ pc = "color"
    /\ \E o \in ColorLevel(col.ray, scene, col.depth) :
         IF o.kind = "panic"
         THEN /\ panic' = "expected bvh to exist when hit called"
              /\ pc' = "panicked"
              /\ UNCHANGED <<px, col>>
         ELSE IF o.kind = "rec"
         THEN /\ col' = [col EXCEPT !.ray = o.scattered, !.depth = @ - 1,
                                    !.atts = Append(@, o.attenuation),
                                    !.hits = @ + o.hits, !.scatters = @ + o.scatters]
              /\ UNCHANGED <<panic, pc, px>>
         ELSE /\ col' = [col EXCEPT !.hits = @ + o.hits, !.scatters = @ + o.scatters,
                                    !.leaf = Some(o.val),
                                    !.ret = Some(Attenuated(col.atts, o.val))]
              /\ px' = PxAfter(cam.val, px, Attenuated(col.atts, o.val))
              /\ pc' = IF PxComplete(cam.val, PxAfter(cam.val, px, Attenuated(col.atts, o.val)))
                       THEN "write" ELSE "pixel"
              /\ UNCHANGED panic
    /\ UNCHANGED <<sceneVars, rgbVars, args, cam, out, err>>

\* a pixel write whose failure is recorded while the loops go on
RenderWritePxGoesOn ==
    /\ pc = "write"
    /\ LET wn == IF px.wn + 1 < cam.val.img_width THEN px.wn + 1 ELSE 0
           hn == IF px.wn + 1 < cam.val.img_width THEN px.hn ELSE px.hn + 1
       IN  /\ px' = [PxIdle EXCEPT !.wn = wn, !.hn = hn]
           /\ pc' = LoopAt(cam.val, wn, hn)
    /\ \/ out' = Append(out, ARgbDisplay(px.px_color).val) /\ UNCHANGED err
       \/ err' = "WritePx" /\ UNCHANGED out
    /\ col' = ColIdle
    /\ UNCHANGED <<sceneVars, panic, rgbVars, args, cam>>

\* render: px_color.write(stdout), which the sink accepts or fails, and the loops' step
RenderWritePx ==
    /\ pc = "write"
    /\ IF ~ARgbDisplay(px.px_color).some
       THEN /\ panic' = "f64 is nan!"
            /\ pc' = "panicked"
            /\ UNCHANGED <<out, err, px, col>>
       ELSE \/ /\ out' = Append(out, ARgbDisplay(px.px_color).val)
               /\ LET wn == IF px.wn + 1 < cam.val.img_width THEN px.wn + 1 ELSE 0
                      hn == IF px.wn + 1 < cam.val.img_width THEN px.hn ELSE px.hn + 1
                  IN  /\ px' = [PxIdle EXCEPT !.wn = wn, !.hn = hn]
                      /\ pc' = LoopAt(cam.val, wn, hn)
               /\ col' = ColIdle
               /\ UNCHANGED <<err, panic>>
            \/ /\ err' = "WritePx"
               /\ pc' = "error"
               /\ UNCHANGED <<out, px, col, panic>>
    /\ UNCHANGED <<sceneVars, rgbVars, args, cam>>

Next ==
    \/ MainCameraBuild
    \/ MainScene
    \/ RenderHeader
    \/ RenderTrace
    \/ ColorStep
    \/ RenderWritePx

Spec == Init /\ [][Next]_vars

(***************************************************************************)
(* Camera::build and Camera::ray_for under test: any combination of given  *)
(* and omitted arguments, then rays for the corner pixels.                 *)
(***************************************************************************)
BuildArgs ==
    { [lookfrom |-> lf, lookat |-> la, vup |-> vu, img_width |-> wr[1], ratio |-> wr[2],
       aa_samples_per_px |-> aa, vfov |-> vf, focus_dist |-> fd, defocus_angle |-> da,
       max_bounce_depth |-> d] :
        lf \in {None, Some(Pt(0, 0, 1))},
        la \in {None, Some(Pt(0, 1, -2))},
        vu \in {None, Some(Pt(1, 0, 0))},
        wr \in {<<1, Scale>>, <<2, Scale>>, <<400, FDiv(16 * Scale, 9 * Scale)>>},
        aa \in {None, Some(0), Some(2)},
        vf \in {None, Some(2214)},
        fd \in {None, Some(2 * Scale)},
        da \in {None, Some(926)},
        d \in {None, Some(0), Some(50)} }

InitBuild ==
    /\ scene = SceneDefault
    /\ query = NoQuery
    /\ panic = ""
    /\ rgbIn = ARgbDefault
    /\ rgbOut = None
    /\ pc = "build"
    /\ args = None
    /\ cam = None
    /\ out = <<>>
    /\ err = ""
    /\ px = PxIdle
    /\ col = ColIdle

\* Camera::build
BuildCamera ==
    /\ pc = "build"
    /\ \E a \in BuildArgs :
         /\ args' = Some(a)
         /\ IF ~ImgHeight(a.img_width, a.ratio).some
            THEN /\ panic' = "img height in pixels should fit u32"
                 /\ pc' = "panicked"
                 /\ UNCHANGED <<cam, err>>
            ELSE IF CameraBuild(a).ok
            THEN /\ cam' = Some(CameraBuild(a).val)
                 /\ pc' = "built"
                 /\ UNCHANGED <<panic, err>>
            ELSE /\ err' = CameraBuild(a).err
                 /\ pc' = "failed"
                 /\ UNCHANGED <<panic, cam>>
    /\ UNCHANGED <<sceneVars, rgbVars, out, px, col>>

\* Camera::ray_for on a corner pixel of the image
BuildRayFor ==
    /\ pc = "built"
    /\ \E wn \in {0, cam.val.img_width - 1}, hn \in {0, cam.val.img_height - 1} :
         \E r \in ray_for(cam.val, wn, hn) :
           px' = [PxIdle EXCEPT !.wn = wn, !.hn = hn, !.traced = 1, !.ray = r]
    /\ pc' = "rayed"
    /\ UNCHANGED <<sceneVars, panic, rgbVars, args, cam, out, err, col>>

NextBuild == BuildCamera \/ BuildRayFor

SpecBuild == InitBuild /\ [][NextBuild]_vars

(***************************************************************************)
(* Sphere::hit under test: one sphere, one ray, one interval.              *)
(***************************************************************************)
InitSphere ==
    /\ scene = SceneDefault
    /\ query \in { [kind |-> "sphere_args", s |-> s, ray |-> RayNew(o, d, Some(tm)),
                    ray_t |-> ray_t] :
                     s \in SpherePool,
                     o \in {Pt(0, 0, 0), Pt(0, 0, -5), Pt(1, 0, -5), Pt(0, 3, -5)},
                     d \in {Pt(0, 0, 1), Pt(0, 0, 2), Pt(0, 1, 1), Pt(0, 0, -1)},
                     tm \in {0, Scale \div 2},
                     ray_t \in { IntervalNew(1, PInf), IntervalNew(4 * Scale, 9 * Scale),
                                 IntervalNew(1, 5 * Scale + Scale \div 2),
                                 IntervalNew(7 * Scale, PInf) } }
    /\ panic = ""
    /\ rgbIn = ARgbDefault
    /\ rgbOut = None
    /\ RenderIdle

\* Sphere::hit
SphereHitCall ==
    /\ query.kind = "sphere_args"
    /\ query' = [kind |-> "sphere_hit", s |-> query.s, ray |-> query.ray,
                 ray_t |-> query.ray_t,
                 res |-> SphereHit(query.s, query.ray, query.ray_t)]
    /\ UNCHANGED <<scene, panic, rgbVars, renderVars>>

SpecSphere == InitSphere /\ [][SphereHitCall]_vars

(***************************************************************************)
(* Aabb::merge under test: two boxes.                                      *)
(***************************************************************************)
\* boxes whose axis intervals are ordinary, degenerate or EMPTY
MergeBoxes ==
    LET intervals == { EMPTY, IntervalNew(0, Scale), IntervalNew(-Scale, 2 * Scale),
                       IntervalNew(Scale, Scale), IntervalNew(Scale \div 2, 3 * Scale) }
    IN  { AabbNew(x, y, z) : x \in intervals, y \in intervals, z \in intervals }

InitMerge ==
    /\ scene = SceneDefault
    /\ query \in { [kind |-> "merge_args", a |-> a, b |-> b] : a \in MergeBoxes, b \in MergeBoxes }
    /\ panic = ""
    /\ rgbIn = ARgbDefault
    /\ rgbOut = None
    /\ RenderIdle

\* Aabb::merge, on the two boxes in both orders, on a box with itself and on
\* the empty box with a box
AabbMergeCall ==
    /\ query.kind = "merge_args"
    /\ query' = [kind |-> "merge", a |-> query.a, b |-> query.b,
                 ab |-> AabbMerge(query.a, query.b),
                 ba |-> AabbMerge(query.b, query.a),
                 aa |-> AabbMerge(query.a, query.a),
                 ea |-> AabbMerge(AABB_EMPTY, query.a)]
    /\ UNCHANGED <<scene, panic, rgbVars, renderVars>>

SpecMerge == InitMerge /\ [][AabbMergeCall]_vars

(***************************************************************************)
(* Material::scatter under test: a material, an incoming ray and the hit   *)
(* record Sphere::hit produces for that ray on a sphere of that material.  *)
(***************************************************************************)
ScatterMaterials ==
    { Lambertian(ARgbNew(Scale, Scale, Scale), Scale), Lambertian(Yellow, Scale), Lambertian(Gold, Scale \div 2),
      Lambertian(Yellow, 0),
      LambertianWithTexture(CheckerTexture(Scale, Yellow, Gold), Scale \div 2),
      Metal(Gold, None), Metal(Gold, Some(Scale \div 2)), Metal(Yellow, Some(2 * Scale)),
      Dielectric(Scale + Scale \div 2) }

\* from in front, tangent to the static sphere, from its centre, oblique
ScatterRays ==
    { RayNew(od[1], od[2], Some(tm)) :
        od \in { <<Pt(0, 0, 0), Pt(0, 0, -1)>>, <<Pt(1, 0, 0), Pt(0, 0, -1)>>,
                 <<Pt(0, 0, -3), Pt(0, 0, -1)>>, <<Pt(0, 0, 0), Pt(1, 0, -4)>> },
        tm \in {0, Scale \div 2, Scale} }

\* the hit of r_in on a unit sphere of material m
ScatterHit(m, r_in, moving_center) ==
    SphereHit(SphereNew(Scale, Pt(0, 0, -3), moving_center, m), r_in, IntervalNew(1, PInf))

InitScatter ==
    /\ scene = SceneDefault
    /\ query \in { [kind |-> "scatter_args", m |-> x[1], r_in |-> x[2],
                    hr |-> ScatterHit(x[1], x[2], x[3]).val] :
                   x \in { y \in ScatterMaterials \X ScatterRays \X {None, Some(Pt(0, 1, -3))} :
                             ScatterHit(y[1], y[2], y[3]).some } }
    /\ panic = ""
    /\ rgbIn = ARgbDefault
    /\ rgbOut = None
    /\ RenderIdle

\* Material::scatter: the hit record is borrowed immutably and is the same after
\* the call; refraction_index is the local of Dielectric::scatter
ScatterCall ==
    /\ query.kind = "scatter_args"
    /\ query.m.kind # "lambertian"
    /\ \E res \in Scatter(query.m, query.r_in, query.hr) :
         query' = [kind |-> "scatter", m |-> query.m, r_in |-> query.r_in,
                   hr |-> query.hr, hr_after |-> query.hr,
                   refraction_index |-> IF query.m.kind = "dielectric"
                                        THEN Some(DielectricRefractionIndex(query.m, query.hr))
                                        ELSE None,
                   draw |-> None, res |-> res]
    /\ UNCHANGED <<scene, panic, rgbVars, renderVars>>

\* Lambertian::scatter, with the value drawn from `between` kept
LambertianScatterCall ==
    /\ query.kind = "scatter_args"
    /\ query.m.kind = "lambertian"
    /\ \E draw \in UnitDraws, p \in CubeDraws :
         query' = [kind |-> "scatter", m |-> query.m, r_in |-> query.r_in,
                   hr |-> query.hr, hr_after |-> query.hr,
                   refraction_index |-> None, draw |-> Some(draw),
                   res |-> LambertianScatterWith(query.m, query.r_in, query.hr, draw, p)]
    /\ UNCHANGED <<scene, panic, rgbVars, renderVars>>

NextScatter == ScatterCall \/ LambertianScatterCall

SpecScatter == InitScatter /\ [][NextScatter]_vars

(***************************************************************************)
(* ImageTexture::color under test: an image and texture coordinates.       *)
(***************************************************************************)
MaxWidth == 3
MaxHeight == 2

InitTexture ==
    /\ scene = SceneDefault
    /\ LET coordinates == { NaN, NInf, -(Scale + Scale \div 2), -(Scale \div 2), 0,
                            Scale \div 4, Scale \div 2, Scale - 1, Scale,
                            Scale + Scale \div 2, PInf }
       IN  query \in { [kind |-> "texture_args", img |-> RgbImage(w, h), u |-> u, v |-> v] :
                         w \in 0..MaxWidth, h \in 0..MaxHeight,
                         u \in coordinates, v \in coordinates }
    /\ panic = ""
    /\ rgbIn = ARgbDefault
    /\ rgbOut = None
    /\ RenderIdle

\* ImageTexture::color
ImageTextureColorCall ==
    /\ query.kind = "texture_args"
    /\ \E build \in {"debug", "release"} :
         query' = [kind |-> "texture", img |-> query.img, u |-> query.u, v |-> query.v,
                   res |-> ImageTextureColor(query.img, query.u, query.v, build)]
    /\ UNCHANGED <<scene, panic, rgbVars, renderVars>>

SpecTexture == InitTexture /\ [][ImageTextureColorCall]_vars

(***************************************************************************)
(* Aabb::hit under test: a box, a ray and an interval.                     *)
(***************************************************************************)
InitAabbHit ==
    /\ scene = SceneDefault
    /\ query \in { [kind |-> "aabb_args", box |-> b, ray |-> RayNew(o, d, None), ray_t |-> t] :
                     b \in { AabbNew(IntervalNew(0, 2 * Scale), IntervalNew(0, 2 * Scale),
                                     IntervalNew(0, 2 * Scale)),
                             AabbFromPoints(Pt(-1, -1, -1), Pt(1, 1, 1)) },
                     o \in {Pt(-2, -3, 1), Pt(1, 1, -1), Pt(0, 0, 0), Pt(3, 3, 3)},
                     d \in {Pt(2, 1, 0), Pt(0, 0, 1), Pt(1, 1, 1), Pt(-1, 0, 0)},
                     t \in { IntervalNew(0, PInf), IntervalNew(1, PInf),
                             IntervalNew(4 * Scale, 9 * Scale) } }
    /\ panic = ""
    /\ rgbIn = ARgbDefault
    /\ rgbOut = None
    /\ RenderIdle

\* Aabb::hit
AabbHitCall ==
    /\ query.kind = "aabb_args"
    /\ query' = [kind |-> "aabb_hit", box |-> query.box, ray |-> query.ray,
                 ray_t |-> query.ray_t,
                 res |-> AabbHit(query.box, query.ray, query.ray_t)]
    /\ UNCHANGED <<scene, panic, rgbVars, renderVars>>

\* Aabb::find_ray_hit_boundaries on one axis
AabbFindRayHitBoundariesCall ==
    /\ query.kind = "aabb_args"
    /\ \E i \in 1..Len(AXES) :
         query' = [kind |-> "aabb_axis", box |-> query.box, ray |-> query.ray,
                   ray_t |-> query.ray_t, axis |-> AXES[i],
                   res |-> AabbFindRayHitBoundaries(query.box, query.ray, AXES[i], query.ray_t)]
    /\ UNCHANGED <<scene, panic, rgbVars, renderVars>>

NextAabbHit == AabbHitCall \/ AabbFindRayHitBoundariesCall

SpecAabbHit == InitAabbHit /\ [][NextAabbHit]_vars

(***************************************************************************)
(* Claims                                                                  *)
(***************************************************************************)
\* the primitives below a node, as a set
RECURSIVE Leaves(_)
Leaves(h) == IF h.kind = "sphere" THEN {h} ELSE Leaves(h.left) \cup Leaves(h.right)

\* the t of every primitive's own hit within the interval: the linear scan
ScanTs(prims, ray, ray_t) ==
    {SphereHit(s, ray, ray_t).val.t : s \in {x \in prims : SphereHit(x, ray, ray_t).some}}

MinOf(S) == CHOOSE a \in S : \A b \in S : a <= b

\* C1: the hit the BVH returns has the t of the nearest hit a linear scan over the
\* primitives it was built from finds in the interval, and it returns no hit exactly
\* when the scan finds none.
C1_BvhEqualsLinearScan ==
    (panic = "" /\ query.kind = "hit") =>
        LET ts == ScanTs(Leaves(scene.bvh.val), query.ray, query.ray_t)
        IN  /\ query.res.some <=> ts # {}
            /\ query.res.some => query.res.val.t = MinOf(ts)

\* the quadratic of the sphere and ray of the Sphere::hit call in `query`
C11_Oc == VSub(center_at(query.s, query.ray.tm), query.ray.orig)
C11_A == scalar_prod(query.ray.dir, query.ray.dir)
C11_H == scalar_prod(query.ray.dir, C11_Oc)
C11_C == scalar_prod(C11_Oc, C11_Oc) - FMul(query.s.r, query.s.r)
C11_D == FMul(C11_H, C11_H) - FMul(C11_A, C11_C)
C11_Smaller == FDiv(C11_H - FSqrt(C11_D), C11_A)
C11_Larger == FDiv(C11_H + FSqrt(C11_D), C11_A)
C11_Inside(t) == query.ray_t.min < t /\ t < query.ray_t.max

\* C11: Sphere::hit returns no hit when the discriminant h*h - a*c is negative;
\* otherwise the smaller root (h - sqrt d)/a if it is strictly inside the interval,
\* else the larger root (h + sqrt d)/a if that is strictly inside, else no hit; a
\* returned t is inside the interval and no root inside the interval is smaller.
C11_SphereHitRoots ==
    query.kind = "sphere_hit" =>
        IF C11_D < 0 THEN query.res = None
        ELSE /\ IF C11_Inside(C11_Smaller)
                THEN query.res.some /\ query.res.val.t = C11_Smaller
                ELSE IF C11_Inside(C11_Larger)
                THEN query.res.some /\ query.res.val.t = C11_Larger
                ELSE query.res = None
             /\ query.res.some =>
                  /\ C11_Inside(query.res.val.t)
                  /\ \A root \in {C11_Smaller, C11_Larger} :
                       C11_Inside(root) => query.res.val.t <= root

\* the larger root returned because the smaller one is outside the interval
C11_Witness ==
    /\ query.kind = "sphere_hit"
    /\ query.res.some
    /\ C11_D > 0
    /\ query.res.val.t = C11_Larger
    /\ ~C11_Inside(C11_Smaller)


\* C12: Aabb::merge is commutative and idempotent, its result encloses both
\* arguments on every axis (min no greater than either min, max no smaller than
\* either max), and the EMPTY box (+inf, -inf) is absorbed: merge(EMPTY, a) = a.
C12_MergeAlgebra ==
    query.kind = "merge" =>
        /\ query.ab = query.ba
        /\ query.aa = query.a
        /\ \A i \in 1..Len(AXES) :
             LET m == AxisInterval(query.ab, AXES[i])
                 ia == AxisInterval(query.a, AXES[i])
                 ib == AxisInterval(query.b, AXES[i])
             IN  /\ m.min <= MinI(ia.min, ib.min)
                 /\ m.max >= MaxI(ia.max, ib.max)
        /\ query.ea = query.a

\* two different non-empty boxes whose merge is neither of them
C12_Witness ==
    /\ query.kind = "merge"
    /\ query.a # query.b
    /\ query.ab \notin {query.a, query.b}
    /\ \A i \in 1..Len(AXES) :
         /\ AxisInterval(query.a, AXES[i]) # EMPTY
         /\ AxisInterval(query.b, AXES[i]) # EMPTY


\* the scatter call in `query` is one of Metal::scatter
C13_MetalScattered == query.kind = "scatter" /\ query.m.kind = "metal"
C13_OutDotN == scalar_prod(query.res.scattered.dir, query.hr.n)

\* C13 (as stated): Metal::scatter reports a scattered ray only if the outgoing
\* direction has a strictly positive dot product with the hit normal, with or
\* without a fuzz radius; the attenuation is the albedo.
C13_MetalScatteredOnlyIfOutward ==
    C13_MetalScattered =>
        /\ query.res.ret => C13_OutDotN > 0
        /\ query.res.attenuation = query.m.albedo

\* C13 (amended): with a fuzz radius Metal::scatter reports a scattered ray
\* exactly when the outgoing direction has a strictly positive dot product with
\* the hit normal; without a fuzz radius it always reports a scattered ray; in
\* every case the attenuation is the albedo.
C13_MetalTestsOnlyWithFuzz ==
    C13_MetalScattered =>
        /\ query.m.fuzz.some => (query.res.ret <=> C13_OutDotN > 0)
        /\ ~query.m.fuzz.some => query.res.ret
        /\ query.res.attenuation = query.m.albedo

\* a metal without fuzz reports a scattered ray that does not leave the surface
C13_Witness ==
    /\ C13_MetalScattered
    /\ ~query.m.fuzz.some
    /\ query.res.ret
    /\ C13_OutDotN <= 0


\* the scatter call in `query` is one of Dielectric::scatter
C14_DielectricScattered == query.kind = "scatter" /\ query.m.kind = "dielectric"
C14_Eta == query.m.refraction_index
C14_InvEta == FDiv(Scale, query.m.refraction_index)

\* C14 (as stated): Dielectric::scatter uses the relative refraction index 1/eta
\* when the hit record's face says the ray comes from inside (exiting) and eta
\* when the ray enters from outside.
C14_InverseIndexOnExit ==
    C14_DielectricScattered =>
        /\ query.hr.face = "Inside" => query.refraction_index = Some(C14_InvEta)
        /\ query.hr.face = "Outside" => query.refraction_index = Some(C14_Eta)

\* C14 (amended): Dielectric::scatter uses the relative refraction index eta when
\* the hit record's face is Inside (the ray comes from inside, exiting) and 1/eta
\* when it is Outside (the ray enters from outside).
C14_InverseIndexOnEntry ==
    C14_DielectricScattered =>
        /\ query.hr.face = "Inside" => query.refraction_index = Some(C14_Eta)
        /\ query.hr.face = "Outside" => query.refraction_index = Some(C14_InvEta)

\* a ray from the centre of a glass sphere is scattered at its inner face
C14_Witness ==
    /\ C14_DielectricScattered
    /\ query.hr.face = "Inside"
    /\ scalar_prod(query.r_in.dir, query.hr.n) < 0
    /\ query.refraction_index = Some(C14_Eta)
    /\ C14_Eta # C14_InvEta


\* the scatter call in `query` is one of Lambertian::scatter
C15_LambertianScattered == query.kind = "scatter" /\ query.m.kind = "lambertian"
C15_TextureColor == TextureColor(query.m.texture, query.hr.p)

\* C15: Lambertian::scatter scatters exactly when the uniform draw is below
\* reflectance and is absorbed otherwise; when it scatters the attenuation is
\* texture.color(u, v, p) / reflectance, which for reflectance 1.0 is exactly
\* the texture colour; with reflectance 0 it never scatters, so it never divides
\* by zero.
C15_LambertianWeighted ==
    C15_LambertianScattered =>
        /\ query.res.ret <=> query.draw.val < query.m.reflectance
        /\ query.res.ret =>
             /\ query.m.reflectance # 0
             /\ \A i \in 1..3 :
                  query.res.attenuation[i] = TDiv(C15_TextureColor[i] * Scale, query.m.reflectance)
             /\ query.m.reflectance = Scale => query.res.attenuation = C15_TextureColor
        /\ query.m.reflectance = 0 => ~query.res.ret

\* a half-reflecting surface scatters with twice its texture colour
C15_Witness ==
    /\ C15_LambertianScattered
    /\ query.res.ret
    /\ query.m.reflectance = Scale \div 2
    /\ query.res.attenuation # C15_TextureColor
    /\ query.res.attenuation = ARgbMulF(C15_TextureColor, 2 * Scale)

\* a surface of reflectance 0 absorbs the ray on the smallest draw
C15_WitnessZero ==
    /\ C15_LambertianScattered
    /\ query.m.reflectance = 0
    /\ query.draw = Some(0)
    /\ ~query.res.ret


\* C16: every scattered ray produced by Lambertian, Metal or Dielectric scatter
\* has the time of the incoming ray and starts at the hit point, and scatter
\* leaves the hit record unchanged.
C16_ScatteredKeepsTimeAndStart ==
    query.kind = "scatter" =>
        /\ query.hr_after = query.hr
        /\ (query.res.ret \/ query.m.kind = "metal") =>
             /\ query.res.scattered.tm = query.r_in.tm
             /\ query.res.scattered.orig = query.hr.p

\* C16, along a path: every ray color traces for a camera ray has that ray's time
C16_PathKeepsCameraTime ==
    pc = "color" => col.ray.tm = px.ray.tm

\* a dielectric scatters a ray of time 0.5 into a ray of time 0.5 from the hit point
C16_Witness ==
    /\ query.kind = "scatter"
    /\ query.m.kind = "dielectric"
    /\ query.res.ret
    /\ query.r_in.tm = Scale \div 2
    /\ query.res.scattered.tm = Scale \div 2
    /\ query.res.scattered.orig = query.hr.p
    /\ query.res.scattered.orig # query.r_in.orig

\* a second bounce of a camera ray of time 0.5
C16_PathWitness ==
    /\ pc = "color"
    /\ px.ray.tm = Scale \div 2
    /\ Len(col.atts) >= 1
    /\ col.ray # px.ray


\* C17: ImageTexture::color never reads outside the image: for every u and v and
\* every image of width >= 1 and height >= 1 it reads a pixel (i, j) with
\* 0 <= i < width and 0 <= j < height; for an image of height 0 it returns the
\* fixed fallback colour and does not fail.
C17_ImageIndexInBounds ==
    query.kind = "texture" =>
        /\ (query.img.width >= 1 /\ query.img.height >= 1) =>
             /\ query.res.kind = "color"
             /\ 0 <= query.res.i /\ query.res.i < query.img.width
             /\ 0 <= query.res.j /\ query.res.j < query.img.height
        /\ query.img.height = 0 => query.res = [kind |-> "fallback", val |-> SOLID_CYAN_COLOR]

\* u = 1 and v = +inf read the last pixel of the last row
C17_Witness ==
    /\ query.kind = "texture"
    /\ query.img.width = MaxWidth
    /\ query.img.height = MaxHeight
    /\ query.u = Scale
    /\ query.v = PInf
    /\ query.res.kind = "color"
    /\ query.res.i = MaxWidth - 1
    /\ query.res.j = MaxHeight - 1


\* the basis Camera::build computed from the arguments of the camera built
C18_Basis ==
    Basis(UnwrapOr(args.val.lookfrom, DefaultLookfrom),
          UnwrapOr(args.val.lookat, DefaultLookat),
          UnwrapOr(args.val.vup, DefaultVup))

\* equal up to the rounding of the grid
C18_Near(x, y) == Abs(x - y) <= 3

\* C18: the camera basis built by Camera::build is orthonormal whenever
\* look-from differs from look-at and up is not parallel to the view direction:
\* u, v and w have length 1 and are pairwise perpendicular.
C18_BasisOrthonormal ==
    (/\ pc \in {"built", "rayed"}
     /\ UnwrapOr(args.val.lookfrom, DefaultLookfrom) # UnwrapOr(args.val.lookat, DefaultLookat)
     /\ C18_Basis.u # <<0, 0, 0>>) =>
        /\ C18_Near(size(C18_Basis.u), Scale)
        /\ C18_Near(size(C18_Basis.v), Scale)
        /\ C18_Near(size(C18_Basis.w), Scale)
        /\ C18_Near(scalar_prod(C18_Basis.u, C18_Basis.v), 0)
        /\ C18_Near(scalar_prod(C18_Basis.u, C18_Basis.w), 0)
        /\ C18_Near(scalar_prod(C18_Basis.v, C18_Basis.w), 0)

\* C18, the part the code keeps: w has length 1 and the three are perpendicular
C18_BasisOrthogonal ==
    (/\ pc \in {"built", "rayed"}
     /\ C18_Basis.u # <<0, 0, 0>>) =>
        /\ C18_Near(size(C18_Basis.w), Scale)
        /\ C18_Near(size(C18_Basis.u), size(C18_Basis.v))
        /\ C18_Near(scalar_prod(C18_Basis.u, C18_Basis.v), 0)
        /\ C18_Near(scalar_prod(C18_Basis.u, C18_Basis.w), 0)
        /\ C18_Near(scalar_prod(C18_Basis.v, C18_Basis.w), 0)


\* the interval ray_t tightened by the slab of one axis, with the comparisons of
\* find_ray_hit_boundaries
C19_Tighten(box, r, axis, ray_t) ==
    LET adinv == Recip(r.dir[axis])
        t0 == EMul(ESub(AxisInterval(box, axis).min, r.orig[axis]), adinv)
        t1 == EMul(ESub(AxisInterval(box, axis).max, r.orig[axis]), adinv)
        min_t == IF Lt(t0, t1) THEN t0 ELSE t1
        max_t == IF Lt(t0, t1) THEN t1 ELSE t0
    IN  IntervalNew(IF Gt(min_t, ray_t.min) THEN min_t ELSE ray_t.min,
                    IF Lt(max_t, ray_t.max) THEN max_t ELSE ray_t.max)

\* the interval left after the slabs of all three axes, each applied to the
\* interval the one before left
C19_Tightened ==
    C19_Tighten(query.box, query.ray, AXES[3],
        C19_Tighten(query.box, query.ray, AXES[2],
            C19_Tighten(query.box, query.ray, AXES[1], query.ray_t)))

\* C19: Aabb::hit tightens the incoming interval progressively over the three
\* axes and returns true exactly when the interval left after all three slab
\* intersections is non-empty (max > min); a ray that enters the slab of an
\* axis ahead of its origin crosses that slab for the interval [0, +inf).
C19_HitIsProgressiveTightening ==
    /\ query.kind = "aabb_hit" =>
         (query.res <=> Gt(C19_Tightened.max, C19_Tightened.min))
    /\ (/\ query.kind = "aabb_axis"
        /\ query.ray_t = IntervalNew(0, PInf)
        /\ query.ray.dir[query.axis] > 0
        /\ query.ray.orig[query.axis] < AxisInterval(query.box, query.axis).min) => query.res

\* C19, the part the code keeps: a ray that enters the slab of an axis ahead of
\* its origin crosses that slab for the interval [0, +inf)
C19_EntersAheadCrosses ==
    (/\ query.kind = "aabb_axis"
     /\ query.ray_t = IntervalNew(0, PInf)
     /\ query.ray.dir[query.axis] > 0
     /\ query.ray.orig[query.axis] < AxisInterval(query.box, query.axis).min) => query.res

\* the ray of the unit test: from (1, 1, -1) along z into the box [0,2]^3
C19_EntersAheadWitness ==
    /\ query.kind = "aabb_axis"
    /\ query.axis = 3
    /\ query.ray = RayNew(Pt(1, 1, -1), Pt(0, 0, 1), None)
    /\ query.ray_t = IntervalNew(0, PInf)
    /\ query.box = AabbNew(IntervalNew(0, 2 * Scale), IntervalNew(0, 2 * Scale),
                           IntervalNew(0, 2 * Scale))
    /\ query.res


\* the product of val with the attenuations from position i on, outermost last
RECURSIVE C20_Times(_, _, _)
C20_Times(atts, i, val) ==
    IF i > Len(atts) THEN val ELSE ARgbMul(atts[i], C20_Times(atts, i + 1, val))

\* counts and result of the call of color for the current camera ray
C20_Budget ==
    /\ col.depth >= 0
    /\ pc = "color" => ColorLevel(col.ray, scene, col.depth) # {}
    /\ col.hits <= col.depth0
    /\ col.scatters <= col.depth0
    /\ col.depth + Len(col.atts) = col.depth0
    /\ col.ret.some =>
         /\ \/ col.depth = 0 /\ col.leaf.val = ARgbNew(0, 0, 0)
                             /\ col.hits = Len(col.atts) /\ col.scatters = Len(col.atts)
            \/ col.depth > 0 /\ col.leaf.val = ARgbDefault
                             /\ col.hits = Len(col.atts) + 1 /\ col.scatters = Len(col.atts) + 1
            \/ col.depth > 0 /\ col.leaf.val = Background(col.ray)
                             /\ col.hits = Len(col.atts) + 1 /\ col.scatters = Len(col.atts)
         /\ col.ret.val = C20_Times(col.atts, 1, col.leaf.val)

\* a bounce: color recurses on the scattered ray
C20_Bounce ==
    (pc = "color" /\ pc' = "color") =>
        /\ col.depth > 0
        /\ col'.depth = col.depth - 1
        /\ Len(col'.atts) = Len(col.atts) + 1
        /\ col'.hits = col.hits + 1
        /\ col'.scatters = col.scatters + 1

\* C20: color(ray, scene, d) always terminates and makes at most d scene hit
\* queries and at most d scatter calls: every level that is entered can be
\* evaluated, each bounce recurses with depth exactly one lower (the depth never
\* goes below 0, so there are at most d bounces) and the result is multiplied
\* component-wise by the attenuation; evaluation stops at the first miss
\* (background gradient), the first absorption (black) or depth 0 (black).
C20_ColorTerminatesWithinBudget ==
    /\ []C20_Budget
    /\ [][C20_Bounce]_vars

\* a path of two bounces that ends in a third level
C20_Witness ==
    /\ col.ret.some
    /\ Len(col.atts) >= 2
    /\ col.hits <= col.depth0

\* a path cut by the depth budget: the level at depth 0 is reached by recursion
C20_WitnessBudget ==
    /\ col.ret.some
    /\ col.depth = 0
    /\ Len(col.atts) = col.depth0
    /\ col.depth0 >= 1

\* a path that ends in an absorption
C20_WitnessAbsorbed ==
    /\ col.ret.some
    /\ col.scatters > Len(col.atts)

\* a path that ends in a miss after a bounce
C20_WitnessMiss ==
    /\ col.ret.some
    /\ col.hits > col.scatters
    /\ Len(col.atts) >= 1


\* the outward normal Sphere::hit hands to set_face_normal for the hit in `query`
C21_OutwardNormal ==
    VDiv(VSub(query.res.val.p, center_at(query.s, query.ray.tm)), query.s.r)

\* C21: after HitRec::set_face_normal(ray, outward_normal) the stored normal
\* never points along the incoming ray, dot(ray.dir, n) <= 0; the face is
\* Outside exactly when dot(ray.dir, outward_normal) < 0, with n the outward
\* normal, and Inside otherwise, with n its negation.
C21_NormalAgainstRay ==
    (query.kind = "sphere_hit" /\ query.res.some) =>
        /\ scalar_prod(query.ray.dir, query.res.val.n) <= 0
        /\ query.res.val.face = "Outside" <=> scalar_prod(query.ray.dir, C21_OutwardNormal) < 0
        /\ query.res.val.face = "Outside" => query.res.val.n = C21_OutwardNormal
        /\ query.res.val.face = "Inside" => query.res.val.n = VNeg(C21_OutwardNormal)
        /\ query.res.val.face \in {"Outside", "Inside"}

\* a ray that starts inside the sphere hits its inner face: the normal is flipped
C21_Witness ==
    /\ query.kind = "sphere_hit"
    /\ query.res.some
    /\ query.res.val.face = "Inside"
    /\ scalar_prod(query.ray.dir, C21_OutwardNormal) > 0
    /\ query.res.val.n = VNeg(C21_OutwardNormal)
    /\ scalar_prod(query.ray.dir, query.res.val.n) < 0


\* at every node some longest axis of its box orders the primitives: each one
\* below the left child has an interval minimum no greater than each one below
\* the right child
RECURSIVE C22_Ordered(_)
C22_Ordered(h) ==
    h.kind = "sphere" \/
        /\ \E axis \in LongestAxes(h.bbox) :
             \A l \in Leaves(h.left), r \in Leaves(h.right) :
                AxisInterval(l.bbox, axis).min <= AxisInterval(r.bbox, axis).min
        /\ C22_Ordered(h.left)
        /\ C22_Ordered(h.right)

C22_Distinct(objects) ==
    \A i, j \in 1..Len(objects) : i # j => objects[i] # objects[j]

\* the tree Bvh::new built from the slice `objects`
C22_BuiltFrom(tree, objects) ==
    /\ Leaves(tree.left) \cup Leaves(tree.right) = {objects[i] : i \in 1..Len(objects)}
    /\ Len(objects) = 1 => Leaves(tree.left) = Leaves(tree.right)
    /\ (Len(objects) >= 2 /\ C22_Distinct(objects)) =>
         Leaves(tree.left) \cap Leaves(tree.right) = {}
    /\ C22_Ordered(tree)
    /\ (Len(objects) > 2 /\ C22_Distinct(objects)) =>
         Cardinality(Leaves(tree.left)) = Len(objects) \div 2

\* C22: in the BVH built from n >= 1 primitives every input primitive is a leaf
\* of exactly one of the root's two subtrees (of both when n = 1) and no other
\* primitive appears; at every node the primitives under the left child have an
\* interval minimum on the split axis no greater than those under the right
\* child; for n > 2 the left child holds the first floor(n/2) of the sorted order.
C22_BvhPartition ==
    [][(~scene.bvh.some /\ scene'.bvh.some) =>
          C22_BuiltFrom(scene'.bvh.val, scene.objects)]_vars

\* a tree over three different primitives: one below the left child, two below
\* the right one
C22_Witness ==
    /\ scene.bvh.some
    /\ Len(scene.objects) = 3
    /\ C22_Distinct(scene.objects)
    /\ C22_BuiltFrom(scene.bvh.val, scene.objects)
    /\ scene.bvh.val.left.kind = "bvh"
    /\ Cardinality(Leaves(scene.bvh.val.right)) = 2


\* box encloses the box of primitive p on every axis
C23_Encloses(box, p) ==
    \A i \in 1..Len(AXES) :
        /\ AxisInterval(box, AXES[i]).min <= AxisInterval(p.bbox, AXES[i]).min
        /\ AxisInterval(box, AXES[i]).max >= AxisInterval(p.bbox, AXES[i]).max

\* every node's box encloses the box of every primitive below the node
RECURSIVE C23_NodesEnclose(_)
C23_NodesEnclose(h) ==
    h.kind = "sphere" \/
        /\ \A p \in Leaves(h) : C23_Encloses(h.bbox, p)
        /\ C23_NodesEnclose(h.left)
        /\ C23_NodesEnclose(h.right)

\* C23: Bvh::new terminates for every non-empty input and never recurses on an
\* empty slice: it builds a tree from every non-empty object list, and the
\* zero-length branch is entered only for an empty list; in the tree every
\* node's bounding box encloses, on every axis, the box of every primitive
\* below that node.
C23_BvhBuiltAndEnclosing ==
    /\ (scene.objects # <<>> /\ ~scene.bvh.some) => BvhNew(scene.objects) # {}
    /\ panic = "entered unreachable code" => scene.objects = <<>>
    /\ scene.bvh.some => C23_NodesEnclose(scene.bvh.val)

\* a tree of two levels over three primitives, one of them a moving sphere
C23_Witness ==
    /\ scene.bvh.some
    /\ Cardinality(Leaves(scene.bvh.val)) = 3
    /\ \E p \in Leaves(scene.bvh.val) : p.center.moving
    /\ scene.bvh.val.right.kind = "bvh"
    /\ scene.bvh.val.bbox # scene.bvh.val.right.bbox
    /\ C23_NodesEnclose(scene.bvh.val)


\* one step of the scene: the first build_bvh builds from the objects added so
\* far; from then on no step changes the BVH, and an add only appends an object
C24_Step ==
    /\ (~scene.bvh.some /\ scene'.bvh.some) =>
         /\ scene'.objects = scene.objects
         /\ Leaves(scene'.bvh.val) = {scene.objects[i] : i \in 1..Len(scene.objects)}
    /\ scene.bvh.some => scene'.bvh = scene.bvh
    /\ scene'.objects # scene.objects =>
         /\ scene'.bvh = scene.bvh
         /\ Len(scene'.objects) = Len(scene.objects) + 1
         /\ SubSeq(scene'.objects, 1, Len(scene.objects)) = scene.objects

\* a hit is the hit of a primitive of the BVH
C24_HitOfBuilt ==
    (panic = "" /\ query.kind = "hit" /\ query.res.some) =>
        query.res.val.t \in ScanTs(Leaves(scene.bvh.val), query.ray, query.ray_t)

\* C24: after any sequence of Scene::add and Scene::build_bvh calls the BVH used
\* by Scene::hit is the one the first build_bvh built from the objects added up
\* to that call: a later build_bvh leaves it unchanged, an add after it changes
\* only the object list, and an object added after the first build is never
\* returned by hit.
C24_FirstBuildStays ==
    /\ [][C24_Step]_vars
    /\ []C24_HitOfBuilt

\* an object added after the build lies on the ray of a query and is not hit
C24_Witness ==
    /\ panic = ""
    /\ scene.bvh.some
    /\ query.kind = "hit"
    /\ \E i \in 1..Len(scene.objects) :
         /\ scene.objects[i] \notin Leaves(scene.bvh.val)
         /\ SphereHit(scene.objects[i], query.ray, query.ray_t).some
         /\ ~query.res.some


(***************************************************************************)
(* Sphere::new and Sphere::center_at under test, in rounded arithmetic.    *)
(* An f64 keeps 53 significant bits and every +, - and * rounds its exact  *)
(* result to the nearest such value, ties to even; here a value keeps      *)
(* MantissaBits significant bits of its count of 1/Scale units.            *)
(***************************************************************************)
MantissaBits == 7

\* the spacing of the representable values around a / d, a >= 0
RECURSIVE F64Quantum(_, _, _)
F64Quantum(a, d, q) ==
    IF a < (2 ^ MantissaBits) * q * d THEN q ELSE F64Quantum(a, d, 2 * q)

\* the representable value nearest to n / d, ties to the even one
F64Round(n, d) ==
    LET a == Abs(n)
        q == F64Quantum(a, d, 1)
        k == a \div (q * d)
        rem == a % (q * d)
        up == 2 * rem > q * d \/ (2 * rem = q * d /\ k % 2 = 1)
    IN  Sgn(n) * (IF up THEN k + 1 ELSE k) * q

\* Sphere::new with a second centre: the two endpoint boxes, each from
\* center - rvec and center + rvec, and their union
SphereNewF64(r, center, second_center, mat) ==
    LET lo(c) == << F64Round(c[1] - r, 1), F64Round(c[2] - r, 1), F64Round(c[3] - r, 1) >>
        hi(c) == << F64Round(c[1] + r, 1), F64Round(c[2] + r, 1), F64Round(c[3] + r, 1) >>
        box1 == AabbFromPoints(lo(center), hi(center))
        box2 == AabbFromPoints(lo(second_center), hi(second_center))
    IN  [kind |-> "sphere",
         r |-> MaxI(r, 0),
         center |-> [moving |-> TRUE, c1 |-> center, c2 |-> second_center],
         mat |-> mat,
         bbox |-> AabbExpand(box1, box2)]

\* before_c + tm * (later_c - before_c), each operation rounded
center_at_f64(s, tm) ==
    IF ~s.center.moving THEN s.center.c1
    ELSE LET b == s.center.c1
             l == s.center.c2
             lerp(i) == F64Round(b[i] + F64Round(tm * F64Round(l[i] - b[i], 1), Scale), 1)
         IN  << lerp(1), lerp(2), lerp(3) >>

\* radii, centres and ray times that are representable values
InitMoving ==
    /\ scene = SceneDefault
    /\ query \in
         LET xs == { F64Round(v * Scale, 2) : v \in {-6, -4, -2, -1, 0, 1, 3, 5} }
             ys == { F64Round(v * Scale, 2) : v \in {-3, 0, 4} }
             ps == { <<x, y, 0>> : x \in xs, y \in ys }
         IN  { [kind |-> "moving_args", r |-> r, c1 |-> c1, c2 |-> c2, tm |-> tm] :
                 r \in { F64Round(Scale, 2), F64Round(Scale, 1) },
                 c1 \in ps, c2 \in ps,
                 tm \in { 0, F64Round(Scale, 2), F64Round(Scale, 1) } }
    /\ panic = ""
    /\ rgbIn = ARgbDefault
    /\ rgbOut = None
    /\ RenderIdle

\* Sphere::new with a second centre, then center_at at the ray time
CenterAtCall ==
    /\ query.kind = "moving_args"
    /\ LET s == SphereNewF64(query.r, query.c1, query.c2, Lambertian(Gold, Scale))
       IN  query' = [kind |-> "center_at", s |-> s, tm |-> query.tm,
                     center |-> center_at_f64(s, query.tm)]
    /\ UNCHANGED <<scene, panic, rgbVars, renderVars>>

SpecMoving == InitMoving /\ [][CenterAtCall]_vars

\* the box of a sphere of radius r standing at centre c
C25_BoxAt(c, r) == SphereNewF64(r, c, c, Lambertian(Gold, Scale)).bbox

\* the sphere, standing at centre c, is inside the box on every axis
C25_Inside(box, c, r) ==
    \A i \in 1..3 :
        /\ AxisInterval(box, i).min <= AxisInterval(C25_BoxAt(c, r), i).min
        /\ AxisInterval(C25_BoxAt(c, r), i).max <= AxisInterval(box, i).max

C25_InsideBeforeEnd ==
    query.kind = "center_at" =>
        /\ query.s.bbox = AabbMerge(C25_BoxAt(query.s.center.c1, query.s.r),
                                    C25_BoxAt(query.s.center.c2, query.s.r))
        /\ query.tm = 0 => query.center = query.s.center.c1
        /\ query.tm < Scale => C25_Inside(query.s.bbox, query.center, query.s.r)

\* a sphere half way between two different centres
C25_HalfWayWitness ==
    /\ query.kind = "center_at"
    /\ query.tm = Scale \div 2
    /\ query.center # query.s.center.c1
    /\ query.center # query.s.center.c2

\* C25, at ray time 1: center_at(1) is not the second centre and the sphere
\* there reaches outside the box
C25_EndOvershoots ==
    /\ query.kind = "center_at"
    /\ query.tm = Scale
    /\ query.center # query.s.center.c2
    /\ ~C25_Inside(query.s.bbox, query.center, query.s.r)

\* a step of a scene without a BVH that leaves the scene as it is (not an add,
\* not a build that succeeded) returns no result and panics; a result is
\* recorded only by a step of a scene that has its BVH
C26_Step ==
    /\ query' # query => scene.bvh.some /\ query'.kind = "hit"
    /\ (~scene.bvh.some /\ scene' = scene) => query' = query /\ panic' # ""
    /\ (~scene.bvh.some /\ scene' = scene /\ scene.objects # <<>>) =>
           panic' = "expected bvh to exist when hit called"

\* a recorded result is of a scene with its BVH; the panic of hit is of a
\* scene without one
C26_State ==
    /\ query.kind = "hit" => scene.bvh.some
    /\ panic = "expected bvh to exist when hit called" => ~scene.bvh.some

\* C26: Scene::hit on a Scene on which build_bvh has never been called does
\* not return a hit or a miss, it panics; a result (hit or miss) is returned
\* only after build_bvh has been called
C26_HitBeforeBuildPanics == [][C26_Step]_vars /\ []C26_State

\* hit has panicked on a scene that has objects and no BVH
C26_Witness ==
    /\ panic = "expected bvh to exist when hit called"
    /\ scene.objects # <<>>
    /\ ~scene.bvh.some
    /\ query = NoQuery

\* hit has returned a hit and, on another ray, a miss, after build_bvh
C26_WitnessHit == query.kind = "hit" /\ scene.bvh.some /\ query.res.some

C26_WitnessMiss == query.kind = "hit" /\ scene.bvh.some /\ ~query.res.some

\* the sample count N of a camera with antialiasing enabled
C27_N == cam.val.anti_aliaser.val.samples_per_pixel

\* the ray through px00_loc + (wn + wo) * px_du + (hn + ho) * px_dv, for some
\* offsets wo, ho of [-0.5, 0.5)
C27_Jittered(c, p, r) ==
    \E wo \in {-(Scale \div 2), -(Scale \div 4), 0, Scale \div 4},
       ho \in {-(Scale \div 2), -(Scale \div 4), 0, Scale \div 4} :
        VAdd(r.orig, r.dir) =
            VAdd(VAdd(c.px00_loc, VMul(c.px_du, p.wn * Scale + wo)),
                 VMul(c.px_dv, p.hn * Scale + ho))

\* the current ray is one with the same offset on both axes
C27_JitteredEqually ==
    \E o \in {-(Scale \div 2), -(Scale \div 4), 0, Scale \div 4} :
        VAdd(px.ray.orig, px.ray.dir) =
            VAdd(VAdd(cam.val.px00_loc, VMul(cam.val.px_du, px.wn * Scale + o)),
                 VMul(cam.val.px_dv, px.hn * Scale + o))

\* with antialiasing enabled: a pixel starts from black with no ray traced, never
\* has more than N rays, and is written with exactly N rays traced and N results
\* added
C27_Count ==
    (cam.some /\ cam.val.anti_aliaser.some /\ pc \in {"pixel", "color", "write"}) =>
        /\ C27_N >= 1
        /\ px.traced <= C27_N
        /\ px.traced = 0 => px.sample = 0 /\ px.px_color = ARgbDefault
        /\ pc = "pixel" => px.sample = px.traced /\ px.traced < C27_N
        /\ pc = "color" => px.sample + 1 = px.traced /\ C27_Jittered(cam.val, px, px.ray)
        /\ pc = "write" => px.sample = C27_N /\ px.traced = C27_N

\* with antialiasing enabled: each result color returns is added to the pixel's
\* sum, the N-th sum is scaled by 1/N, and the colour written is that value
C27_Sum ==
    (cam.some /\ cam.val.anti_aliaser.some) =>
        /\ (pc = "color" /\ pc' = "pixel") =>
               px'.px_color = ARgbAdd(px.px_color, col'.ret.val)
        /\ (pc = "color" /\ pc' = "write") =>
               px'.px_color = ARgbMulF(ARgbAdd(px.px_color, col'.ret.val),
                                       FDiv(Scale, C27_N * Scale))
        /\ (pc = "write" /\ Len(out') > Len(out)) =>
               out'[Len(out')] = ARgbDisplay(px.px_color).val

\* C27: with antialiasing enabled with N >= 1 samples, render traces exactly N
\* rays for each pixel, each with its own jitter offset in [-0.5, 0.5) on both
\* axes, and the pixel colour written is the sum of the N integrator results
\* scaled by 1/N
C27_AntialiasedPixelIsMean == []C27_Count /\ [][C27_Sum]_vars

\* the second pixel of a row written from two rays whose results differ from the
\* pixel's colour, the last ray jittered differently on the two axes
C27_Witness ==
    /\ cam.some /\ cam.val.anti_aliaser.some
    /\ C27_N = 2
    /\ pc = "write"
    /\ px.wn = 1
    /\ px.traced = 2
    /\ col.ret.some /\ col.ret.val # px.px_color
    /\ px.px_color # ARgbDefault
    /\ ~C27_JitteredEqually

\* where render is once it was entered
InRender == pc \in {"pixel", "color", "write", "done", "error"}

Black == ARgbNew(0, 0, 0)

\* C2: a call of color with depth 0 returns black (0,0,0) whatever the ray and the
\* scene are, and makes no Scene::hit query and no Material::scatter call (so it
\* cannot panic on a scene without a BVH either).
C2_DepthZeroIsBlack ==
    [][(pc = "color" /\ col.depth = 0) =>
          /\ col'.leaf = Some(Black)
          /\ col.atts = <<>> => col'.ret = Some(Black)
          /\ col'.hits = col.hits
          /\ col'.scatters = col.scatters
          /\ panic' = panic]_vars

\* color(ray, scene, 0) returned for a ray that a query would have found a hit for
C2_Witness ==
    /\ col.ret.some
    /\ col.depth0 = 0
    /\ scene.bvh.some
    /\ SceneHitOf(scene, px.ray, IntervalNew(1, PInf)).some

\* C3: rendering a scene without primitives runs to completion: building the scene
\* and querying it do not panic, every query is a miss, and each pixel written is
\* the background gradient at the pixel's ray.
C3_EmptySceneRenders ==
    (pc # "main" /\ pc # "scene" /\ scene.objects = <<>>) =>
        /\ panic = ""
        /\ col.ret.some => (col.ret.val = Background(px.ray) \/ col.depth0 = 0)

\* the line ARgb::write produces for a colour has three integers in [0, 255]
IsPxLine(l) ==
    /\ l.line = "px"
    /\ l.r \in 0..255
    /\ l.g \in 0..255
    /\ l.b \in 0..255

\* C4: the sink holds the header "P3", "W H", "255" once, before every pixel line,
\* then pixel lines of three integers in [0,255]; the line of pixel (wn, hn) is
\* written at position hn * W + wn after the header (row-major), a render that
\* returned Ok wrote exactly W * H of them, and 400 wide at 16/9 is 225 high.
C4_HeaderThenRowMajorPixels ==
    /\ [](InRender /\ pc # "error" =>
            /\ Len(out) >= 3
            /\ SubSeq(out, 1, 3) =
                 << [line |-> "P3"],
                    [line |-> "dims", w |-> args.val.img_width,
                     h |-> ImgHeight(args.val.img_width, args.val.ratio).val],
                    [line |-> "maxval", v |-> 255] >>
            /\ \A i \in 4..Len(out) : IsPxLine(out[i])
            /\ pc = "done" => Len(out) = 3 + cam.val.img_width * cam.val.img_height
            /\ pc # "done" => /\ Len(out) = 3 + px.hn * cam.val.img_width + px.wn
                              /\ px.wn < cam.val.img_width
                              /\ px.hn < cam.val.img_height)
    /\ [](ImgHeight(400, FDiv(16 * Scale, 9 * Scale)) = Some(225))
    /\ [][pc = "write" /\ out' # out =>
            out' = Append(out, ARgbDisplay(px.px_color).val)]_vars

\* a 2 x 2 image rendered to the end
C4_Witness ==
    /\ pc = "done"
    /\ cam.val.img_width = 2
    /\ cam.val.img_height = 2
    /\ Len(out) = 7

\* C5: a failed write ends render at that write: the error is WriteHeader when the
\* header write failed and WritePx when a pixel write failed, the sink keeps what it
\* held, and once render returned the error nothing more is traced or written.
C5_WriteFailureStopsRender ==
    /\ [][err' # err =>
            /\ pc \in {"render", "write"}
            /\ err' = (IF pc = "render" THEN "WriteHeader" ELSE "WritePx")
            /\ out' = out
            /\ pc' = "error"]_vars
    /\ [][pc # "error"]_vars
    /\ [](err # "" => pc = "error")

\* the write of the second pixel of a row failed
C5_Witness ==
    /\ err = "WritePx"
    /\ pc = "error"
    /\ Len(out) = 4
    /\ px.wn = 1

\* C6 as stated: with a sample count of 0 and with the count omitted the camera has
\* no sampler and render traces one unjittered ray per pixel.
C6_DisabledForZeroAndOmitted ==
    (cam.some /\ args.val.aa_samples_per_px \in {None, Some(0)}) =>
        /\ ~cam.val.anti_aliaser.some
        /\ pc = "write" => /\ px.traced = 1
                           /\ px.ray = RenderRayNoAa(cam.val, px.wn, px.hn)

\* C6: antialiasing is disabled exactly when the sample count is Some(0): the camera
\* then has no sampler and render traces one unjittered ray per pixel.  With the
\* count omitted the camera has a sampler of 100 samples and render traces 100 rays
\* per pixel; with Some(n), n > 0, a sampler of n samples.
C6_DisabledOnlyForZero ==
    cam.some =>
        /\ args.val.aa_samples_per_px = Some(0) =>
             /\ ~cam.val.anti_aliaser.some
             /\ pc = "write" => /\ px.traced = 1
                                /\ px.ray = RenderRayNoAa(cam.val, px.wn, px.hn)
        /\ args.val.aa_samples_per_px # Some(0) =>
             /\ cam.val.anti_aliaser.some
             /\ cam.val.anti_aliaser.val.samples_per_pixel =
                  UnwrapOr(args.val.aa_samples_per_px, 100)
             /\ pc = "write" => px.traced = cam.val.anti_aliaser.val.samples_per_pixel

\* a pixel of a camera built without a sample count, all its rays traced
C6_Witness ==
    /\ pc = "write"
    /\ args.val.aa_samples_per_px = None
    /\ px.traced = 100

\* C7: without antialiasing render traces exactly one ray for pixel (wn, hn), from
\* the camera position through px00_loc + wn * px_du + hn * px_dv, the pixel's centre.
C7_RayThroughPixelCentre ==
    (cam.some /\ ~cam.val.anti_aliaser.some /\ pc \in {"color", "write"}) =>
        /\ px.traced = 1
        /\ px.ray.orig = cam.val.lookfrom
        /\ px.ray.dir =
             VSub(VAdd(VAdd(cam.val.px00_loc, VMul(cam.val.px_du, px.wn * Scale)),
                       VMul(cam.val.px_dv, px.hn * Scale)),
                  cam.val.lookfrom)


\* 90 degrees in radians, on the grid
Deg90 == (90 * PI) \div 180

\* the arguments with the stated default in place of each omitted one; the stated
\* depth default is a range, so an omitted depth is filled with the camera's own
StatedDefaults(a, c) ==
    [a EXCEPT !.lookfrom = Some(UnwrapOr(a.lookfrom, Pt(0, 0, 0))),
              !.lookat = Some(UnwrapOr(a.lookat, Pt(0, 0, -1))),
              !.vup = Some(UnwrapOr(a.vup, Pt(0, 1, 0))),
              !.vfov = Some(UnwrapOr(a.vfov, Deg90)),
              !.focus_dist = Some(UnwrapOr(a.focus_dist, Scale)),
              !.defocus_angle = Some(UnwrapOr(a.defocus_angle, 0)),
              !.max_bounce_depth = Some(UnwrapOr(a.max_bounce_depth, c.max_bounce_depth))]

\* C8: the camera built with some arguments omitted is the camera built with
\* look-from (0,0,0), look-at (0,0,-1), up (0,1,0), vertical FOV 90 degrees, focus
\* distance 1.0 and defocus angle 0 given in their place; an omitted depth gives a
\* maximum bounce depth in 10..50; with the defocus angle omitted every ray of
\* ray_for starts at the camera position.
C8_OmittedArgumentsTakeDefaults ==
    cam.some =>
        /\ cam.val = CameraBuild(StatedDefaults(args.val, cam.val)).val
        /\ ~args.val.lookfrom.some => cam.val.lookfrom = Pt(0, 0, 0)
        /\ ~args.val.max_bounce_depth.some => cam.val.max_bounce_depth \in 10..50
        /\ ~args.val.defocus_angle.some =>
             /\ cam.val.defocus.angle = 0
             /\ pc = "rayed" => px.ray.orig = cam.val.lookfrom

\* a ray of a camera built with all seven optional arguments omitted
C8_Witness ==
    /\ pc = "rayed"
    /\ \A f \in {"lookfrom", "lookat", "vup", "vfov", "focus_dist",
                 "defocus_angle", "max_bounce_depth"} : args.val[f] = None
    /\ px.ray.orig = <<0, 0, 0>>
    /\ cam.val.max_bounce_depth = 10


WrittenChannel(i) == IF i = 1 THEN rgbOut.val.r ELSE IF i = 2 THEN rgbOut.val.g ELSE rgbOut.val.b

\* sqrt(x) for x > 0, as a value that may be +inf
GammaOf(x) == IF x = PInf THEN PInf ELSE FSqrt(x)

\* the integer nearest to y clamped into [0, 255], halves rounded up
NearestInU8(v, y) ==
    /\ v \in 0..255
    /\ Lt(y, 0) => v = 0
    /\ Ge(y, 255 * Scale) => v = 255
    /\ (Ge(y, 0) /\ Lt(y, 255 * Scale)) =>
           (2 * (v * Scale - y) <= Scale /\ 2 * (v * Scale - y) > -Scale)

\* C10 (as stated): every channel x is written as sqrt(x) (0 for x <= 0) scaled by
\* 255.999, then clamped and rounded into [0,255].
C10_ScaledBy255_999 ==
    rgbOut.some =>
        \A i \in 1..3 : rgbIn[i] # NaN =>
            NearestInU8(WrittenChannel(i),
                        IF rgbIn[i] > 0 THEN EMul(GammaOf(rgbIn[i]), 255999) ELSE 0)

\* C10 (amended): every channel x is written as sqrt(x) (0 for x <= 0) scaled by
\* 254.999, then clamped and rounded into [0,255]; the written value is in [0,255]
\* for every non-NaN x, negative x and x > 1 included.
C10_ScaledBy254_999 ==
    rgbOut.some =>
        \A i \in 1..3 : rgbIn[i] # NaN =>
            NearestInU8(WrittenChannel(i),
                        IF rgbIn[i] > 0 THEN EMul(GammaOf(rgbIn[i]), 254999) ELSE 0)

\* a colour with a channel above 1, one inside (0,1) and a negative one was written
C10_Witness ==
    /\ rgbOut.some
    /\ rgbIn = ARgbNew(2 * Scale, 250, -1)
    /\ rgbOut.val = [line |-> "px", r |-> 255, g |-> 127, b |-> 0]

====
